---- MODULE Spec2Model ----
(***************************************************************************)
(* State-machine model of the SVG drag-and-drop editor component           *)
(* (src/src/src/components/SVGDragDropEditor.jsx): the scene (elements),   *)
(* the undo/redo history kept by the useEffect on [elements], the gesture  *)
(* state of the pointer handlers, the keyboard handler, the text input and *)
(* the panels that apply filters and animations to a shape.                *)
(*                                                                         *)
(* JavaScript objects are modelled by reference: heap[r] is the shape      *)
(* object with reference r, elements and every history snapshot are        *)
(* sequences of references ([...elements] copies the array, not the        *)
(* objects), and arrs[a] is the applied-animation array with reference a.  *)
(* One action is one event handler run to completion followed by the       *)
(* effects React runs after the re-render it causes.                       *)
(***************************************************************************)
EXTENDS Integers, Sequences, FiniteSets, TLC

\* ------------------------------------------------------------------ bounds
\* Number of shape objects a run may allocate (object literals and spreads).
MaxRefs == 3
\* Longest history the model records.
MaxHistory == 3
\* Largest absolute value of a coordinate or a size.
MaxCoord == 120
\* Most points collected by one path-drawing gesture.
MaxPathPoints == 2
\* Most entries of the filter store and of the animation catalog.
MaxResources == 1
\* Most entries of one shape's applied-animation array.
MaxApplied == 2
\* Longest edit sequence E1..En followed by the undo/redo bookkeeping.
MaxEdits == 2
\* Most composite effects a run creates.
MaxEffects == 1
\* Most rectangles of a run that works the resize handles.
MaxResized == 1
\* Most rectangles of a run that creates one after resizing another.
MaxCreated == 2
\* Most commands of a path string given to the path codec.
MaxCommands == 2
\* Longest path string the path codec writes.
MaxPathChars == 40
\* Largest magnitude of a number given to snapToGridValue on its own.
MaxSnapArg == 50
\* Most ticks of the preview timer a run counts.
MaxTicks == 2
\* Most readings of the clock that identifiers are made of.
MaxIds == 4
\* Most entries of the animation catalog when Path Morph fills it.
MaxDescriptors == 1

\* -------------------------------------------------- JavaScript values
\* Numbers are integers of -MaxCoord..MaxCoord; values outside that range
\* stand for the JavaScript values undefined, null, NaN and the infinities.
Undef == 9001
Null == 9002
NaN == 9003
\* Infinity and -Infinity, the starting values of getBoundingBox's min and max.
Infinity == 9004
NegInfinity == 9005

\* useState(20) for gridSize; the component never calls setGridSize.
gridSize == 20
\* fontSize of createText, used by the text hit test.
FontSize == 20

IsNum(v) == v \notin {Undef, Null, NaN, Infinity, NegInfinity}

\* a || b on numbers: 0, NaN, undefined and null are falsy.
Or(a, b) == IF a \in {0, Undef, Null, NaN} THEN b ELSE a

\* Arithmetic: undefined and NaN operands give NaN.
Add(a, b) == IF IsNum(a) /\ IsNum(b) THEN a + b ELSE NaN
Sub(a, b) == IF IsNum(a) /\ IsNum(b) THEN a - b ELSE NaN

\* Math.max(m, v): NaN if v is NaN.
MathMax(m, v) == IF IsNum(v) THEN (IF v > m THEN v ELSE m) ELSE NaN

\* Math.round(v / g) * g for integers v: halves round towards +Infinity.
RoundToGrid(v, g) == ((2 * v + g) \div (2 * g)) * g

\* A snap to the next grid line above the value.
snapToGridValueAbove(snap, v) ==
  IF snap /\ IsNum(v) THEN (v \div gridSize + 1) * gridSize ELSE v

\* snapToGridValue with the snapToGrid flag as a parameter: the infinities
\* and NaN come back as they are, undefined gives NaN and null gives 0.
snapToGridValue(snap, v) ==
  IF ~snap THEN v
  ELSE IF IsNum(v) THEN RoundToGrid(v, gridSize)
  ELSE IF v = Undef THEN NaN
  ELSE IF v = Null THEN 0
  ELSE v

\* Comparisons: any comparison with NaN or undefined is false.
Leq(a, b) == IsNum(a) /\ IsNum(b) /\ a <= b

\* ------------------------------------------------------------------ inputs
Pt(x, y) == [x |-> x, y |-> y]
\* Pointer positions in scene coordinates (getSVGCoordinates of the event).
Points == {Pt(30, 40), Pt(50, 40)}
\* The pointer position of the runs that work the panels.
PanelPoints == {Pt(40, 40)}
\* Values typed into the text input.
Texts == {"Hi"}
\* Colours picked in the fill input.
Fills == {"#ff0000"}
Directions == {"n", "s", "e", "w", "ne", "nw", "se", "sw"}

\* String.prototype.trim and length on the values of Texts.
Trim(s) == IF s = " " THEN "" ELSE s

\* direction.includes(c) for the compass tokens.
Includes(dir, c) ==
  CASE c = "n" -> dir \in {"n", "ne", "nw"}
    [] c = "s" -> dir \in {"s", "se", "sw"}
    [] c = "e" -> dir \in {"e", "ne", "se"}
    [] c = "w" -> dir \in {"w", "nw", "sw"}

\* ----------------------------------------------------------------- strings
DigitVal(c) ==
  CASE c = "0" -> 0 [] c = "1" -> 1 [] c = "2" -> 2 [] c = "3" -> 3 [] c = "4" -> 4
    [] c = "5" -> 5 [] c = "6" -> 6 [] c = "7" -> 7 [] c = "8" -> 8 [] c = "9" -> 9
DigitChar(n) ==
  CASE n = 0 -> "0" [] n = 1 -> "1" [] n = 2 -> "2" [] n = 3 -> "3" [] n = 4 -> "4"
    [] n = 5 -> "5" [] n = 6 -> "6" [] n = 7 -> "7" [] n = 8 -> "8" [] n = 9 -> "9"

\* `${v}` for a number: the decimal digits, a minus sign for a negative
\* number, "NaN", "Infinity".
RECURSIVE DigitsOf(_)
DigitsOf(n) == IF n < 10 THEN <<DigitChar(n)>> ELSE Append(DigitsOf(n \div 10), DigitChar(n % 10))
NumToStr(v) ==
  CASE v = NaN -> <<"N", "a", "N">>
    [] v = Infinity -> <<"I", "n", "f", "i", "n", "i", "t", "y">>
    [] v = NegInfinity -> <<"-", "I", "n", "f", "i", "n", "i", "t", "y">>
    [] OTHER -> IF v < 0 THEN <<"-">> \o DigitsOf(-v) ELSE DigitsOf(v)

\* The value of the digits str[i..j].
RECURSIVE DigitsVal(_, _, _)
DigitsVal(str, i, j) ==
  IF j < i THEN 0 ELSE DigitsVal(str, i, j - 1) * 10 + DigitVal(str[j])

\* A string the code splits, matches or builds is the sequence of its
\* characters.  The characters of the model: the command letters, the
\* space, the comma, the minus sign, the digits and the letters of "NaN".
\* parseFloat of a string of the model's characters: an optional sign and
\* the longest run of digits after it; NaN when there is no digit.
parseFloat(str) ==
  LET
    Digits == {"0", "1", "2", "3", "4", "5", "6", "7", "8", "9"}
    SignLen(s) == IF Len(s) > 0 /\ s[1] = "-" THEN 1 ELSE 0
    \* The index after the run of digits that starts at first.
    DigitsEnd(s, first) ==
      IF \E j \in first..Len(s) : s[j] \notin Digits
      THEN CHOOSE j \in first..Len(s) :
             s[j] \notin Digits /\ \A k \in first..(j - 1) : s[k] \in Digits
      ELSE Len(s) + 1
    NumberAt(s, first, stop) ==
      IF stop = first THEN NaN
      ELSE IF first = 2 THEN 0 - DigitsVal(s, first, stop - 1)
      ELSE DigitsVal(s, first, stop - 1)
  IN  NumberAt(str, SignLen(str) + 1, DigitsEnd(str, SignLen(str) + 1))

SplitCommands(str) ==
  LET
    \* The character class [MLHVCSQTAZmlhvcsqtaz] of the split.
    CommandLetters ==
      {"M", "L", "H", "V", "C", "S", "Q", "T", "A", "Z",
       "m", "l", "h", "v", "c", "s", "q", "t", "a", "z"}
    \* str.split(/(?=[MLHVCSQTAZmlhvcsqtaz])/): a new piece starts before every
    \* command letter but the one at the start of the string; "" gives [""].
    PieceStarts(s) == {1} \cup {i \in 2..Len(s) : s[i] \in CommandLetters}
    \* The k-th piece of the string whose pieces start at the indexes starts.
    Piece(s, starts, k) ==
      LET StartOf(n) == CHOOSE i \in starts : Cardinality({j \in starts : j <= i}) = n
      IN  SubSeq(s, StartOf(k),
                 IF k = Cardinality(starts) THEN Len(s) ELSE StartOf(k + 1) - 1)
    PiecesFrom(s, starts) == [k \in 1..Cardinality(starts) |-> Piece(s, starts, k)]
  IN  IF Len(str) = 0 THEN <<(<<>>)>> ELSE PiecesFrom(str, PieceStarts(str))

MatchCoords(cmd) ==
  LET
    \* \s and [,\s] over the model's characters.
    IsSpace(c) == c = " "
    IsSep(c) == c = "," \/ IsSpace(c)
    \* cmd.match(/([MLml])\s*([^,\s]+)[,\s]([^,\s]+)/) on a piece that starts
    \* with M or L: after the letter the spaces, a run of characters that are
    \* neither comma nor space, exactly one comma or space, and a second such
    \* run.  The result is the array [whole match, letter, first run, second
    \* run], or the empty sequence for null.
    \* The first index from i on that holds no space.
    SkipSpaces(c, i) ==
      IF \E j \in i..Len(c) : ~IsSpace(c[j])
      THEN CHOOSE j \in i..Len(c) : ~IsSpace(c[j]) /\ \A k \in i..(j - 1) : IsSpace(c[k])
      ELSE Len(c) + 1
    \* The first index from i on that holds a comma or a space.
    RunEnd(c, i) ==
      IF \E j \in i..Len(c) : IsSep(c[j])
      THEN CHOOSE j \in i..Len(c) : IsSep(c[j]) /\ \A k \in i..(j - 1) : ~IsSep(c[k])
      ELSE Len(c) + 1
    \* The match whose second group is cmd[a1..a2-1] and third cmd[a2+1..b2-1].
    MatchGroups(c, a1, a2, b2) ==
      IF a1 <= Len(c) /\ a2 > a1 /\ a2 <= Len(c) /\ b2 > a2 + 1
      THEN <<SubSeq(c, 1, b2 - 1), <<c[1]>>, SubSeq(c, a1, a2 - 1),
             SubSeq(c, a2 + 1, b2 - 1)>>
      ELSE <<>>
    MatchFrom(c, a1, a2) == MatchGroups(c, a1, a2, RunEnd(c, a2 + 1))
  IN  MatchFrom(cmd, SkipSpaces(cmd, 2), RunEnd(cmd, SkipSpaces(cmd, 2)))

CoordsOf(cmd) ==
  LET
    \* cmd.match(...) || [null, type, 0, 0].
    MatchOrDefault(c, m) ==
      IF Len(m) = 0 THEN <<(<<>>), <<c[1]>>, NumToStr(0), NumToStr(0)>> ELSE m
    \* const [_, x, y] = array, then parseFloat(x) and parseFloat(y): x is the
    \* array's second entry and y its third.
    Destructure(array) == [x |-> parseFloat(array[2]), y |-> parseFloat(array[3])]
    CoordsOfMatch(c, m) == Destructure(MatchOrDefault(c, m))
  IN  CoordsOfMatch(cmd, MatchCoords(cmd))

\* pieces.join(sep).
RECURSIVE JoinWith(_, _)
JoinWith(pieces, sep) ==
  IF Len(pieces) = 0 THEN <<>>
  ELSE IF Len(pieces) = 1 THEN pieces[1]
  ELSE pieces[1] \o sep \o JoinWith(Tail(pieces), sep)

\* pieces.join(' ').
Join(pieces) == JoinWith(pieces, <<" ">>)

\* cmd.charAt(0): the empty string for an empty piece.
CharAt0(cmd) == IF Len(cmd) = 0 THEN "" ELSE cmd[1]

\* `${type} ${x} ${y}`.
MLString(type, x, y) == <<type, " ">> \o NumToStr(x) \o <<" ">> \o NumToStr(y)

parsePath(pathData) ==
  LET
    \* parsePath: an M or L piece gives {command, x, y}, any other piece
    \* {command, raw} (x and y are Undef and raw is empty for the absent keys).
    MLSegment(type, xy) == [command |-> type, x |-> xy.x, y |-> xy.y, raw |-> <<>>]
    SegmentOf(cmd) ==
      IF CharAt0(cmd) \in {"M", "L"} THEN MLSegment(CharAt0(cmd), CoordsOf(cmd))
      ELSE [command |-> CharAt0(cmd), x |-> Undef, y |-> Undef, raw |-> cmd]
    SegmentsOf(commands) == [i \in 1..Len(commands) |-> SegmentOf(commands[i])]
  IN  SegmentsOf(SplitCommands(pathData))

stringifyPath(segs) ==
  LET
    \* stringifyPath.
    SegmentString(segment) ==
      IF segment.command \in {"M", "L"} THEN MLString(segment.command, segment.x, segment.y)
      ELSE segment.raw
  IN  Join([i \in 1..Len(segs) |-> SegmentString(segs[i])])

\* ----------------------------------------------------------- path motion
\* The numbers the generators add are fractions in the source; the model
\* adds whole numbers of the same range.  A table gives, for variation
\* i - 1 and segment index - 1, -1, 0 or 1: the offset is that many half
\* amplitudes.
\* Math.random() over a generation: always 0, always 0.5, or mixed.
RandomTables ==
  {[i \in 1..5 |-> [index \in 1..4 |-> -1]],
   [i \in 1..5 |-> [index \in 1..4 |-> 0]],
   [i \in 1..5 |-> [index \in 1..4 |-> ((i + index) % 3) - 1]]}

\* Math.sin((i / 5) * Math.PI * 2 + index * 0.5), rounded to -1, 0 or 1.
SinTable ==
  <<<<0, 0, 1, 1>>, <<1, 1, 1, 0>>, <<1, 0, 0, -1>>, <<-1, -1, -1, -1>>, <<-1, -1, 0, 0>>>>

\* The variations of the three generators: parsePath, numVariations times
\* the segments with every M and L segment moved and stringifyPath, then
\* the path itself, join(';').  The segment of index `index` in variation
\* i is moved by the table entry times xScale and times yScale.
Variations(pathData, numVariations, table, xScale, yScale, closing) ==
  LET \* The table entry of segment index in variation i (0 beyond the table).
      Entry(i, index) == IF index \in 0..3 THEN table[i + 1][index + 1] ELSE 0
      pathSegments == parsePath(pathData)
      newSegments(i) ==
        [index \in 1..Len(pathSegments) |->
           IF pathSegments[index].command \in {"M", "L"}
           THEN [pathSegments[index] EXCEPT
                   !.x = Add(pathSegments[index].x, Entry(i, index - 1) * xScale),
                   !.y = Add(pathSegments[index].y, Entry(i, index - 1) * yScale)]
           ELSE pathSegments[index]]
      variations == [i \in 1..numVariations |-> stringifyPath(newSegments(i - 1))]
  IN  JoinWith(variations \o closing, <<";">>)

\* generatePathVariations without the closing push of the path.
generatePathVariationsOpen(pathData, numVariations, amplitude, random) ==
  Variations(pathData, numVariations, random, amplitude \div 2, amplitude \div 2, <<>>)

\* generatePathVariations: (Math.random() - 0.5) * 20 * intensity, with
\* amplitude standing for 20 * intensity.
generatePathVariations(pathData, numVariations, amplitude, random) ==
  Variations(pathData, numVariations, random, amplitude \div 2, amplitude \div 2,
             <<pathData>>)

\* generateJitterPaths: (Math.random() - 0.5) * intensity.
generateJitterPaths(pathData, intensity, numVariations, random) ==
  Variations(pathData, numVariations, random, intensity \div 2, intensity \div 2,
             <<pathData>>)

\* generateWavePaths: waveOffset = Math.sin(...) * intensity for x and
\* waveOffset * 0.5 for y.
generateWavePaths(pathData, intensity, numVariations) ==
  Variations(pathData, numVariations, SinTable, intensity, intensity \div 2, <<pathData>>)

\* ------------------------------------------------------------------ shapes
\* A shape object.  Every record carries every field; Undef marks a key the
\* JavaScript object does not have.  d holds the path data "M x y L x y ..."
\* as a string; animations is the reference of the object's
\* animations array (0: no such key); keys lists, in insertion order, the
\* keys added to the object after its construction (JSON.stringify writes
\* keys in insertion order).
Shape(id, type) ==
  [id |-> id, type |-> type, x |-> Undef, y |-> Undef, cx |-> Undef, cy |-> Undef,
   width |-> Undef, height |-> Undef, r |-> Undef, rx |-> Undef, ry |-> Undef,
   d |-> <<>>, text |-> "", fill |-> "", filter |-> Undef, animations |-> 0,
   keys |-> <<>>]

\* A rectangle whose size is snapped as its position is.
createRectangleSnapAll(snap, id, x, y, width, height) ==
  [Shape(id, "rect") EXCEPT !.x = snapToGridValue(snap, x), !.y = snapToGridValue(snap, y),
                            !.width = snapToGridValue(snap, width),
                            !.height = snapToGridValue(snap, height), !.fill = "#ADD8E6"]

createRectangle(snap, id, x, y, width, height) ==
  [Shape(id, "rect") EXCEPT !.x = snapToGridValue(snap, x), !.y = snapToGridValue(snap, y),
                            !.width = width, !.height = height, !.fill = "#ADD8E6"]

createCircle(snap, id, x, y, radius) ==
  [Shape(id, "circle") EXCEPT !.cx = snapToGridValue(snap, x), !.cy = snapToGridValue(snap, y),
                              !.r = radius, !.fill = "lightgreen"]

createText(snap, id, x, y, text) ==
  [Shape(id, "text") EXCEPT !.x = snapToGridValue(snap, x), !.y = snapToGridValue(snap, y),
                            !.text = text, !.fill = "black"]

\* points.reduce(...): `M ${x} ${y}` for the first point, then
\* `${acc} L ${x} ${y}` for every other one.
RECURSIVE PathDataUpTo(_, _)
PathDataUpTo(points, i) ==
  IF i = 0 THEN <<>>
  ELSE IF i = 1 THEN MLString("M", points[1].x, points[1].y)
  ELSE PathDataUpTo(points, i - 1) \o <<" ">> \o MLString("L", points[i].x, points[i].y)

PathData(points) == PathDataUpTo(points, Len(points))

WrittenPairs(d) ==
  LET
    \* The pairs that a path string as createPath writes it lists: for each
    \* piece its letter and, for an M or L piece, the two numbers after it.
    WrittenPair(cmd, m) ==
      IF CharAt0(cmd) \in {"M", "L"} /\ Len(m) # 0
      THEN [command |-> CharAt0(cmd), x |-> parseFloat(m[3]), y |-> parseFloat(m[4])]
      ELSE [command |-> CharAt0(cmd), x |-> NaN, y |-> NaN]
    WrittenPairsOf(commands) ==
      [i \in 1..Len(commands) |-> WrittenPair(commands[i], MatchCoords(commands[i]))]
  IN  WrittenPairsOf(SplitCommands(d))

createPath(id, points) ==
  [Shape(id, "path") EXCEPT !.d = PathData(points), !.fill = "none"]

\* Adding key k to an object: a key the object already has keeps its place.
AddKey(keys, k) ==
  IF \E i \in 1..Len(keys) : keys[i] = k THEN keys ELSE Append(keys, k)

\* ------------------------------------------------------------ geometry
Min(S) == CHOOSE v \in S : \A w \in S : v <= w

getBoundingBox(el) ==
  LET
    Max(S) == CHOOSE v \in S : \A w \in S : w <= v
    \* Math.min and Math.max over a set of parsed numbers, from Infinity and
    \* -Infinity: NaN as soon as one of them is NaN.
    MathMin(S) == IF S = {} THEN Infinity ELSE IF \A v \in S : IsNum(v) THEN Min(S) ELSE NaN
    MathMaxOf(S) == IF S = {} THEN NegInfinity ELSE IF \A v \in S : IsNum(v) THEN Max(S) ELSE NaN
    \* getBoundingBox: min/max over the M and L pieces of d; the other pieces
    \* are skipped.  Without any M or L piece the box is Infinity, -Infinity.
    BoxOf(minX, minY, maxX, maxY) ==
      [x |-> minX, y |-> minY,
       width |-> IF maxX = NegInfinity THEN NegInfinity ELSE Sub(maxX, minX),
       height |-> IF maxY = NegInfinity THEN NegInfinity ELSE Sub(maxY, minY)]
    BoxOfRanges(xs, ys) == BoxOf(MathMin(xs), MathMin(ys), MathMaxOf(xs), MathMaxOf(ys))
    \* The positions of the number pairs cs of the M and L pieces.
    BoxOfCoords(cs) ==
      BoxOfRanges({cs[i].x : i \in DOMAIN cs}, {cs[i].y : i \in DOMAIN cs})
    \* numX and numY of every M or L piece, by the index of the piece.
    MLCoords(commands) ==
      [i \in {j \in 1..Len(commands) : CharAt0(commands[j]) \in {"M", "L"}} |->
         CoordsOf(commands[i])]
  IN  IF el.type # "path" THEN [x |-> 0, y |-> 0, width |-> 0, height |-> 0]
      ELSE BoxOfCoords(MLCoords(SplitCommands(el.d)))

\* isPointInElement.  The text box is text.length * fontSize * 0.6 wide and
\* fontSize * 1.2 high: the comparisons are multiplied by 5 to stay integral.
isPointInElement(point, el) ==
  LET
    StrLen(s) == CASE s = "" -> 0 [] s = " " -> 1 [] s = "Hi" -> 2 [] OTHER -> 4
    \* The path branch of isPointInElement: the box widened by the buffer.
    InBufferedBox(p, bbox, buffer) ==
      /\ Leq(Sub(bbox.x, buffer), p.x)
      /\ Leq(p.x, Add(Add(bbox.x, bbox.width), buffer))
      /\ Leq(Sub(bbox.y, buffer), p.y)
      /\ Leq(p.y, Add(Add(bbox.y, bbox.height), buffer))
  IN  CASE el.type = "rect" ->
             /\ Leq(el.x, point.x) /\ Leq(point.x, Add(el.x, el.width))
             /\ Leq(el.y, point.y) /\ Leq(point.y, Add(el.y, el.height))
        [] el.type = "circle" ->
             /\ IsNum(el.cx) /\ IsNum(el.cy) /\ IsNum(el.r)
             /\ (point.x - el.cx) * (point.x - el.cx) + (point.y - el.cy) * (point.y - el.cy)
                  <= el.r * el.r
        [] el.type = "ellipse" ->
             LET rx == Or(el.rx, 0)
                 ry == Or(el.ry, 0)
             IN  /\ rx # 0 /\ ry # 0
                 /\ IsNum(el.cx) /\ IsNum(el.cy)
                 /\ (point.x - el.cx) * (point.x - el.cx) * ry * ry
                      + (point.y - el.cy) * (point.y - el.cy) * rx * rx <= rx * rx * ry * ry
        [] el.type = "text" ->
             /\ IsNum(el.x) /\ IsNum(el.y)
             /\ el.x <= point.x
             /\ 5 * point.x <= 5 * el.x + StrLen(el.text) * FontSize * 3
             /\ 5 * (el.y - point.y) <= FontSize * 6
             /\ point.y <= el.y
        [] el.type = "path" -> InBufferedBox(point, getBoundingBox(el), 5)
        [] OTHER -> FALSE

TranslatePath(d, dx, dy) ==
  LET
    \* The path rewriting of the drag and paste handlers: split, every M or L
    \* piece becomes `${type} ${parseFloat(x) + dx} ${parseFloat(y) + dy}`, any
    \* other piece is kept, join(' ').
    TranslateCoords(type, xy, tx, ty) == MLString(type, Add(xy.x, tx), Add(xy.y, ty))
    TranslatePiece(cmd, tx, ty) ==
      IF CharAt0(cmd) \in {"M", "L"} THEN TranslateCoords(CharAt0(cmd), CoordsOf(cmd), tx, ty)
      ELSE cmd
    TranslatePieces(commands, tx, ty) ==
      [i \in 1..Len(commands) |-> TranslatePiece(commands[i], tx, ty)]
  IN  Join(TranslatePieces(SplitCommands(d), dx, dy))

\* ------------------------------------------------------------------- state
VARIABLES
  elements,            \* the scene: references of the shape objects, in z-order
  heap,                \* heap[r]: the shape object with reference r
  arrs,                \* arrs[a]: the applied-animation array with reference a
  history,             \* recorded snapshots, each an array of references
  historyIndex,        \* 0-based index into history, -1 when empty
  selectedElement,     \* reference of the selected object, 0 for null
  draggedElement,      \* reference of the dragged object, 0 for null
  offset,              \* pointer-to-anchor offset captured at pointer-down
  isResizing, resizeDirection, initialSize, initialPosition,
  isDrawing, pathPoints, drawingPath,
  mode, snapToGrid,
  textInput, showTextInput, textPosition,
  clipboard,           \* <<>> for null, <<object>> for the copied object
  svgFilters, selectedFilterId,
  animations, selectedAnimationId,
  svgGradients,        \* the gradient store
  nextId,              \* source of the "applied-<Date.now()>-<random>" identifiers
  pathData, segments,  \* the argument and the result of the path codec
  previewAnimation,    \* the animation preview is switched on
  timePosition,        \* milliseconds the preview timer has counted
  snapArg,             \* the argument and the result of snapToGridValue
  constructed,         \* the arguments and the result of the constructor called last
  log                  \* bookkeeping of the run: edits E1..En, then undos, then redos

sceneVars == <<elements, heap, arrs>>
historyVars == <<history, historyIndex>>
gestureVars == <<draggedElement, offset, isResizing, resizeDirection, initialSize,
                 initialPosition, isDrawing, pathPoints, drawingPath>>
textVars == <<textInput, showTextInput, textPosition>>
storeVars == <<svgFilters, selectedFilterId, animations, selectedAnimationId,
               svgGradients>>
codecVars == <<pathData, segments>>
previewVars == <<previewAnimation, timePosition>>
callVars == <<snapArg, constructed>>
vars == <<elements, heap, arrs, history, historyIndex, selectedElement, draggedElement,
          offset, isResizing, resizeDirection, initialSize, initialPosition, isDrawing,
          pathPoints, drawingPath, mode, snapToGrid, textInput, showTextInput,
          textPosition, clipboard, svgFilters, selectedFilterId, animations,
          selectedAnimationId, svgGradients, nextId, pathData, segments,
          previewAnimation, timePosition, snapArg, constructed, log>>

\* ----------------------------------------------------- run bookkeeping
\* The run is outside the pattern "edits, then undos, then redos".
LogOff == [n |-> 0, u |-> 0, r |-> 0, ok |-> FALSE, post |-> <<>>]
\* One more scene edit of the sequence E1..En.
LogEdit(l) ==
  IF l.ok /\ l.u = 0 /\ l.n < MaxEdits THEN [l EXCEPT !.n = l.n + 1] ELSE LogOff
\* One more redo after n undos.
LogRedo(l) ==
  IF l.ok /\ l.n > 0 /\ l.u = l.n /\ l.r < l.n THEN [l EXCEPT !.r = l.r + 1] ELSE LogOff

\* The useState initial values.
Init ==
  /\ elements = <<>> /\ heap = <<>> /\ arrs = <<>>
  /\ history = <<>> /\ historyIndex = -1
  /\ selectedElement = 0 /\ draggedElement = 0
  /\ offset = Pt(0, 0)
  /\ isResizing = FALSE /\ resizeDirection = ""
  /\ initialSize = [width |-> 0, height |-> 0]
  /\ initialPosition = Pt(0, 0)
  /\ isDrawing = FALSE /\ pathPoints = <<>> /\ drawingPath = <<>>
  /\ mode = "select" /\ snapToGrid = TRUE
  /\ textInput = "" /\ showTextInput = FALSE /\ textPosition = Pt(0, 0)
  /\ clipboard = <<>>
  /\ svgFilters = <<>> /\ selectedFilterId = Null
  /\ animations = <<>> /\ selectedAnimationId = Null
  /\ svgGradients = <<>>
  /\ nextId = 1
  /\ pathData = <<>> /\ segments = <<>>
  /\ previewAnimation = FALSE /\ timePosition = 0
  /\ snapArg = 0 /\ constructed = <<>>
  /\ log = LogOff

\* The same state, with the run followed from the start.
InitLog ==
  LET
    \* The start of a followed run.
    LogStart == [n |-> 0, u |-> 0, r |-> 0, ok |-> TRUE, post |-> <<>>]
  IN  /\ elements = <<>> /\ heap = <<>> /\ arrs = <<>>
      /\ history = <<>> /\ historyIndex = -1
      /\ selectedElement = 0 /\ draggedElement = 0
      /\ offset = Pt(0, 0)
      /\ isResizing = FALSE /\ resizeDirection = ""
      /\ initialSize = [width |-> 0, height |-> 0]
      /\ initialPosition = Pt(0, 0)
      /\ isDrawing = FALSE /\ pathPoints = <<>> /\ drawingPath = <<>>
      /\ mode = "select" /\ snapToGrid = TRUE
      /\ textInput = "" /\ showTextInput = FALSE /\ textPosition = Pt(0, 0)
      /\ clipboard = <<>>
      /\ svgFilters = <<>> /\ selectedFilterId = Null
      /\ animations = <<>> /\ selectedAnimationId = Null
      /\ svgGradients = <<>>
      /\ nextId = 1
      /\ pathData = <<>> /\ segments = <<>>
      /\ previewAnimation = FALSE /\ timePosition = 0
      /\ snapArg = 0 /\ constructed = <<>>
      /\ log = LogStart

\* ------------------------------------------------------- JSON.stringify
\* JSON.stringify writes NaN as null, leaves out undefined keys, writes the
\* animations array by content and keeps the insertion order of the keys.
JsonNum(v) == IF v = NaN THEN Null ELSE v

JsonStringify(els, hp, ar) ==
  LET
    JsonOfShape(o, a) ==
      [id |-> o.id, type |-> o.type, x |-> JsonNum(o.x), y |-> JsonNum(o.y),
       cx |-> JsonNum(o.cx), cy |-> JsonNum(o.cy), width |-> JsonNum(o.width),
       height |-> JsonNum(o.height), r |-> JsonNum(o.r), rx |-> JsonNum(o.rx),
       ry |-> JsonNum(o.ry),
       d |-> o.d,
       text |-> o.text, fill |-> o.fill, filter |-> o.filter,
       animations |-> IF o.animations = 0 THEN <<>> ELSE <<a[o.animations]>>,
       keys |-> o.keys]
  IN  [i \in 1..Len(els) |-> JsonOfShape(hp[els[i]], ar)]

ContentOf(els, hp, ar) ==
  LET
    \* The content of an array of shapes: every field of every shape and the
    \* content of its animations array, whatever the order of the keys.
    ContentOfShape(o, a) ==
      [o EXCEPT !.animations = IF o.animations = 0 THEN <<>> ELSE <<a[o.animations]>>,
                !.keys = {o.keys[i] : i \in 1..Len(o.keys)}]
  IN  [i \in 1..Len(els) |-> ContentOfShape(hp[els[i]], ar)]

\* ------------------------------------------------------ history effect
\* The effect without the slice: the new snapshot goes after the redo tail.
useEffectHistoryKeepTail(els, hp, ar, hist, idx) ==
  IF /\ Len(els) > 0
     /\ (Len(hist) = 0 \/ JsonStringify(hist[idx + 1], hp, ar) # JsonStringify(els, hp, ar))
  THEN [history |-> Append(hist, els), historyIndex |-> Len(hist)]
  ELSE [history |-> hist, historyIndex |-> idx]

\* useEffect(..., [elements]): runs after every render that follows a
\* setElements, with the history and historyIndex of that render.
useEffectHistory(els, hp, ar, hist, idx) ==
  IF /\ Len(els) > 0
     /\ (Len(hist) = 0 \/ JsonStringify(hist[idx + 1], hp, ar) # JsonStringify(els, hp, ar))
  THEN LET newHistory == Append(SubSeq(hist, 1, idx + 1), els)
       IN  [history |-> newHistory, historyIndex |-> Len(newHistory) - 1]
  ELSE [history |-> hist, historyIndex |-> idx]

\* Every number of a shape is within the model's range.
InRange(v) == ~IsNum(v) \/ (v >= -MaxCoord /\ v <= MaxCoord)

\* setElements(els) with the heap hp and arrays ar the handler leaves, the
\* historyIndex idx the handler set, then the history effect.
SetElements(els, hp, ar, idx) ==
  LET
    SegmentsInRange(segs) == \A i \in 1..Len(segs) : InRange(segs[i].x) /\ InRange(segs[i].y)
    ShapeInRange(o) ==
      /\ InRange(o.x) /\ InRange(o.y) /\ InRange(o.cx) /\ InRange(o.cy)
      /\ InRange(o.width) /\ InRange(o.height) /\ InRange(o.r)
      /\ SegmentsInRange(WrittenPairs(o.d))
  IN  LET h == useEffectHistory(els, hp, ar, history, idx)
      IN  /\ Len(h.history) <= MaxHistory
          /\ \A i \in 1..Len(hp) : ShapeInRange(hp[i])
          /\ elements' = els /\ heap' = hp /\ arrs' = ar
          /\ history' = h.history /\ historyIndex' = h.historyIndex

\* A lookup that settles for the first element when the id is not there.
findIndexOrFirst(els, hp, id) ==
  IF \E i \in 1..Len(els) : hp[els[i]].id = id
  THEN Min({i \in 1..Len(els) : hp[els[i]].id = id})
  ELSE IF Len(els) > 0 THEN 1 ELSE 0

\* elements.findIndex(el => el.id === id), 1-based, 0 for -1.
findIndex(els, hp, id) ==
  IF \E i \in 1..Len(els) : hp[els[i]].id = id
  THEN Min({i \in 1..Len(els) : hp[els[i]].id = id})
  ELSE 0

\* -------------------------------------------------------- pointer-down
\* handleMouseDown takes the event's scene point p and its target: one of
\* the resize handles (its data-direction) or "canvas" for anything else.

\* handleMouseDown: select mode, on a resize handle of the selected element
mouseDownHandle(p, target) ==
  LET
    Twice(a) == IF IsNum(a) THEN 2 * a ELSE NaN
  IN  /\ mode = "select" /\ selectedElement # 0 /\ target \in Directions
      /\ LET sel == heap[selectedElement]
         IN  /\ isResizing' = TRUE
             /\ resizeDirection' = target
             /\ initialSize' = [width |-> Or(sel.width, Twice(sel.r)),
                                height |-> Or(sel.height, Twice(sel.r))]
             /\ initialPosition' = Pt(Or(sel.x, Sub(sel.cx, sel.r)),
                                      Or(sel.y, Sub(sel.cy, sel.r)))
      /\ UNCHANGED <<sceneVars, historyVars, selectedElement, draggedElement, offset,
                     isDrawing, pathPoints, drawingPath, mode, snapToGrid, textVars, clipboard,
                     storeVars, nextId, codecVars, previewVars, callVars, log>>

\* handleMouseDown: select mode, on a shape: elements.find takes the first hit
mouseDownShape(p, target) ==
  LET
    \* The offset captured for the clicked shape; bbox is its bounding box.
    DragOffset(q, clicked, bbox, old) ==
      CASE clicked.type \in {"rect", "text", "ellipse"} ->
             Pt(Sub(q.x, Or(clicked.x, clicked.cx)), Sub(q.y, Or(clicked.y, clicked.cy)))
        [] clicked.type = "circle" -> Pt(Sub(q.x, clicked.cx), Sub(q.y, clicked.cy))
        [] clicked.type = "path" -> Pt(Sub(q.x, bbox.x), Sub(q.y, bbox.y))
        [] OTHER -> old
  IN  /\ mode = "select" /\ ~(selectedElement # 0 /\ target \in Directions)
      /\ \E i \in 1..Len(elements) :
           /\ isPointInElement(p, heap[elements[i]])
           /\ \A j \in 1..(i - 1) : ~isPointInElement(p, heap[elements[j]])
           /\ selectedElement' = elements[i]
           /\ draggedElement' = elements[i]
           /\ offset' = DragOffset(p, heap[elements[i]], getBoundingBox(heap[elements[i]]),
                                   offset)
      /\ UNCHANGED <<sceneVars, historyVars, isResizing, resizeDirection, initialSize,
                     initialPosition, isDrawing, pathPoints, drawingPath, mode, snapToGrid,
                     textVars, clipboard, storeVars, nextId, codecVars, previewVars, callVars,
                     log>>

\* handleMouseDown: select mode, on empty space: deselect
mouseDownEmpty(p, target) ==
  /\ mode = "select" /\ ~(selectedElement # 0 /\ target \in Directions)
  /\ \A i \in 1..Len(elements) : ~isPointInElement(p, heap[elements[i]])
  /\ selectedElement' = 0
  /\ UNCHANGED <<sceneVars, historyVars, gestureVars, mode, snapToGrid, textVars,
                 clipboard, storeVars, nextId, codecVars, previewVars, callVars, log>>

\* handleMouseDown: rect and circle modes: a new shape of size 0, resized from "se"
mouseDownCreate(p, target) ==
  /\ mode \in {"rect", "circle"}
  /\ Len(heap) < MaxRefs
  /\ LET ref == Len(heap) + 1
         new == IF mode = "rect"
                THEN createRectangle(snapToGrid, ref, p.x, p.y, 0, 0)
                ELSE createCircle(snapToGrid, ref, p.x, p.y, 0)
     IN  /\ SetElements(Append(elements, ref), Append(heap, new), arrs, historyIndex)
         /\ selectedElement' = ref
         /\ draggedElement' = ref
  /\ isResizing' = TRUE
  /\ resizeDirection' = "se"
  /\ initialPosition' = Pt(p.x, p.y)
  /\ UNCHANGED <<offset, initialSize, isDrawing, pathPoints, drawingPath, mode, snapToGrid,
                 textVars, clipboard, storeVars, nextId, codecVars, previewVars, callVars>>
  /\ log' = LogEdit(log)

\* handleMouseDown: text mode: show the text input at the click position
mouseDownText(p, target) ==
  /\ mode = "text"
  /\ textPosition' = Pt(p.x, p.y)
  /\ showTextInput' = TRUE
  /\ UNCHANGED <<sceneVars, historyVars, selectedElement, gestureVars, mode, snapToGrid,
                 textInput, clipboard, storeVars, nextId, codecVars, previewVars, callVars,
                 log>>

\* handleMouseDown: path mode: start drawing
mouseDownPath(p, target) ==
  /\ mode = "path"
  /\ isDrawing' = TRUE
  /\ pathPoints' = <<p>>
  /\ drawingPath' = PathData(<<p>>)
  /\ UNCHANGED <<sceneVars, historyVars, selectedElement, draggedElement, offset,
                 isResizing, resizeDirection, initialSize, initialPosition, mode,
                 snapToGrid, textVars, clipboard, storeVars, nextId, codecVars,
                 previewVars, callVars, log>>

\* generateId: `element-${Date.now()}-${Math.floor(Math.random() * 1000)}`.
\* A shape made by a separate event gets the number of its object as
\* identifier: the clock has advanced since every earlier call.  The calls
\* made within one handler can return equal strings (the same millisecond
\* and the same random part): call k of a handler that allocates objects
\* base + 1, base + 2, ... returns the identifier of its call same[k].
generateId(base, same, k) == base + same[k]

\* The outcomes of n calls of generateId within one handler: same[k] = k for
\* a string no earlier call returned, same[k] = j < k for the string of call j.
IdOutcomes(n) ==
  {same \in [1..n -> 1..n] : \A k \in 1..n : same[k] <= k /\ same[same[k]] = same[k]}

\* `noise-${id}` and `gradient-${id}`.
NoiseId(id) == 1000 + id
GradientId(id) == 2000 + id

\* `anim-${Date.now()}`, `anim-${Date.now()}-${i}`, `applied-${Date.now()}-...`
\* and `filter-${Date.now()}` at the clock reading t.
AnimId(t) == 3000 + t
RingAnimId(t, i) == 3000 + 100 * (i + 1) + t
AppliedId(t) == 4000 + t
FilterId(t) == 5000 + t

\* An animation descriptor.  Every record carries every field; the empty
\* string marks a path, a values or a motionType key and Undef an intensity
\* key the JavaScript object does not have.
Animation(id, elementId, type, dur) ==
  [id |-> id, elementId |-> elementId, type |-> type, dur |-> dur, path |-> <<>>,
   keyTimes |-> <<>>, values |-> <<>>, intensity |-> Undef, motionType |-> ""]

\* createQuantumEffect: the primary ellipse and the three rings, of scale
\* 1 - i * 0.2; each setAnimations call is given [...animations, descriptor]
\* with the animations of the current render, so the catalog of the next
\* render is the one of the last call.
createQuantumEffect(snap, base, same, x, y) ==
  LET id == generateId(base, same, 1)
      quantumElement ==
        [Shape(id, "ellipse") EXCEPT !.cx = snapToGridValue(snap, x),
                                     !.cy = snapToGridValue(snap, y),
                                     !.rx = 150, !.ry = 100,
                                     !.fill = "url(#gradient)", !.filter = NoiseId(id)]
      ring(i) ==
        [Shape(generateId(base, same, i + 2), "ellipse") EXCEPT
           !.cx = snapToGridValue(snap, x), !.cy = snapToGridValue(snap, y),
           !.rx = 15 * (10 - 2 * i), !.ry = 10 * (10 - 2 * i), !.fill = "none"]
      pulseAnimation == Animation(AnimId(nextId), id, "attribute", 3)
      rotationAnim(i) ==
        Animation(RingAnimId(nextId, i), generateId(base, same, i + 2), "rotate", 3 + i)
      \* The arrays given to setAnimations, in the order of the calls.
      setAnimationsCalls ==
        <<Append(animations, pulseAnimation), Append(animations, rotationAnim(0)),
          Append(animations, rotationAnim(1)), Append(animations, rotationAnim(2))>>
  IN  [elements |-> <<quantumElement, ring(0), ring(1), ring(2)>>,
       svgFilters |-> Append(svgFilters, NoiseId(id)),
       svgGradients |-> Append(svgGradients, GradientId(id)),
       animations |-> setAnimationsCalls[Len(setAnimationsCalls)]]

\* handleMouseDown: quantum mode: the composite effect, then select mode
mouseDownQuantum(p, target, same) ==
  LET
    \* The primary ellipses of the heap: one per composite effect created.
    EffectsCreated == Cardinality({r \in 1..Len(heap) : heap[r].fill = "url(#gradient)"})
  IN  /\ mode = "quantum"
      /\ EffectsCreated < MaxEffects
      /\ LET base == Len(heap)
             q == createQuantumEffect(snapToGrid, base, same, p.x, p.y)
         IN  /\ SetElements(elements \o <<base + 1, base + 2, base + 3, base + 4>>,
                            heap \o q.elements, arrs, historyIndex)
             /\ selectedElement' = base + 1
             /\ svgFilters' = q.svgFilters
             /\ svgGradients' = q.svgGradients
             /\ animations' = q.animations
      /\ mode' = "select"
      /\ UNCHANGED <<gestureVars, snapToGrid, textVars, clipboard, selectedFilterId,
                     selectedAnimationId, nextId, codecVars, previewVars, callVars>>
      /\ log' = LogEdit(log)

handleMouseDown(p, target) ==
  \/ \E same \in IdOutcomes(4) : mouseDownQuantum(p, target, same)
  \/ mouseDownHandle(p, target)
  \/ mouseDownShape(p, target)
  \/ mouseDownEmpty(p, target)
  \/ mouseDownCreate(p, target)
  \/ mouseDownText(p, target)
  \/ mouseDownPath(p, target)

\* ------------------------------------------------------- pointer-move
\* handleMouseMove with the event's scene point p.
\* handleMouseMove: no gesture, or no branch of the handler applies: nothing happens
mouseMoveIdle(p) ==
  /\ ~(isResizing /\ selectedElement # 0) /\ draggedElement = 0 /\ ~isDrawing
  /\ UNCHANGED vars

\* handleMouseMove: the selected or dragged identifier is not in the scene: return
mouseMoveStale(p) ==
  /\ (draggedElement # 0 \/ isDrawing \/ isResizing)
  /\ IF isResizing /\ selectedElement # 0
     THEN findIndex(elements, heap, heap[selectedElement].id) = 0
     ELSE draggedElement # 0 /\ findIndex(elements, heap, heap[draggedElement].id) = 0
  /\ UNCHANGED vars

\* handleMouseMove: resizing: the object of the scene is changed in place
mouseMoveResize(p) ==
  LET
    \* Math.sqrt on the squares the model meets: the exact root of a perfect
    \* square (pointer positions are restricted to such distances when the
    \* result is stored unsnapped).
    IsSquare(n) == \E k \in 0..(3 * MaxCoord) : k * k = n
    Sqrt(n) == CHOOSE k \in 0..(3 * MaxCoord) : k * k = n
    \* snapToGridValue(Math.max(m, Math.sqrt(d2))) with snapping on, exactly:
    \* Math.round(v / g) is the largest k with (2k - 1) * g <= 2v, i.e.
    \* ((2k - 1) * g)^2 <= 4 * v^2 for k >= 1.
    SnapSqrtMax(m, d2) ==
      LET K == {k \in 0..((3 * MaxCoord) \div gridSize + 1) :
                  k = 0 \/ (((2 * k - 1) * gridSize) * ((2 * k - 1) * gridSize) <= 4 * d2
                            \/ (2 * k - 1) * gridSize <= 2 * m)}
      IN  gridSize * (CHOOSE k \in K : \A j \in K : j <= k)
    \* The rect/text branch of the resize: the new width, height, x and y, each
    \* Undef when the direction leaves it alone.
    ResizeBox(snap, dir, q, iSize, iPos) ==
      LET deltaX == Sub(q.x, iPos.x)
          deltaY == Sub(q.y, iPos.y)
          wE == snapToGridValue(snap, MathMax(20, Add(iSize.width, deltaX)))
          wW == snapToGridValue(snap, MathMax(20, Sub(iSize.width, deltaX)))
          hS == snapToGridValue(snap, MathMax(20, Add(iSize.height, deltaY)))
          hN == snapToGridValue(snap, MathMax(20, Sub(iSize.height, deltaY)))
      IN  [width |-> IF Includes(dir, "w") THEN wW ELSE IF Includes(dir, "e") THEN wE ELSE Undef,
           x |-> IF Includes(dir, "w")
                 THEN snapToGridValue(snap, Sub(Add(iPos.x, iSize.width), wW)) ELSE Undef,
           height |-> IF Includes(dir, "n") THEN hN ELSE IF Includes(dir, "s") THEN hS ELSE Undef,
           y |-> IF Includes(dir, "n")
                 THEN snapToGridValue(snap, Sub(Add(iPos.y, iSize.height), hN)) ELSE Undef]
    \* el.width = newWidth etc.: the assignments of the resize branch, made on
    \* the object itself.
    AssignBox(el, b) ==
      LET k1 == IF b.width # Undef /\ el.width = Undef THEN AddKey(el.keys, "width") ELSE el.keys
          k2 == IF b.height # Undef /\ el.height = Undef THEN AddKey(k1, "height") ELSE k1
      IN  [el EXCEPT !.width = IF b.width # Undef THEN b.width ELSE @,
                     !.height = IF b.height # Undef THEN b.height ELSE @,
                     !.x = IF b.x # Undef THEN b.x ELSE @,
                     !.y = IF b.y # Undef THEN b.y ELSE @,
                     !.keys = k2]
    \* The squared distance of the circle branch, NaN when the centre is NaN.
    Dist2(q, el) ==
      IF IsNum(el.cx) /\ IsNum(el.cy)
      THEN (q.x - el.cx) * (q.x - el.cx) + (q.y - el.cy) * (q.y - el.cy)
      ELSE NaN
    \* snapToGridValue(Math.max(10, Math.sqrt(dx * dx + dy * dy))).
    ResizeRadius(snap, d2) ==
      IF ~IsNum(d2) THEN NaN
      ELSE IF snap THEN SnapSqrtMax(10, d2)
      ELSE MathMax(10, Sqrt(d2))
  IN  /\ isResizing /\ selectedElement # 0
      /\ LET index == findIndex(elements, heap, heap[selectedElement].id)
         IN  /\ index # 0
             /\ LET ref == elements[index]
                    el == heap[ref]
                    d2 == Dist2(p, el)
                    resized ==
                      CASE el.type \in {"rect", "text"} ->
                             AssignBox(el, ResizeBox(snapToGrid, resizeDirection, p,
                                                     initialSize, initialPosition))
                        [] el.type = "circle" ->
                             [el EXCEPT !.r = ResizeRadius(snapToGrid, d2)]
                        [] OTHER -> el
                IN  /\ (el.type = "circle" /\ ~snapToGrid /\ IsNum(d2)) => IsSquare(d2)
                    /\ SetElements(elements, [heap EXCEPT ![ref] = resized], arrs,
                                   historyIndex)
      /\ UNCHANGED <<selectedElement, gestureVars, mode, snapToGrid, textVars, clipboard,
                     storeVars, nextId, codecVars, previewVars, callVars>>
      /\ log' = LogEdit(log)

\* handleMouseMove: dragging: the object of the scene is replaced by a moved
\* copy when the dragged object is a rect, a text, a circle or a path; for
\* any other type the new array holds the same objects.
mouseMoveDrag(p) ==
  LET
    \* The drag of a path: translateX = newX - bbox.x, translateY = newY - bbox.y.
    TranslateTo(d, bbox, newX, newY) ==
      TranslatePath(d, Sub(newX, bbox.x), Sub(newY, bbox.y))
  IN  /\ ~(isResizing /\ selectedElement # 0) /\ draggedElement # 0
      /\ LET dragged == heap[draggedElement]
             index == findIndex(elements, heap, dragged.id)
         IN  /\ index # 0
             /\ IF dragged.type \in {"rect", "text", "circle", "path"}
                THEN /\ Len(heap) < MaxRefs
                     /\ LET old == heap[elements[index]]
                            newX == snapToGridValue(snapToGrid, Sub(p.x, offset.x))
                            newY == snapToGridValue(snapToGrid, Sub(p.y, offset.y))
                            moved ==
                              CASE dragged.type \in {"rect", "text"} ->
                                     [old EXCEPT !.x = newX, !.y = newY]
                                [] dragged.type = "circle" ->
                                     [old EXCEPT !.cx = newX, !.cy = newY]
                                [] dragged.type = "path" ->
                                     [old EXCEPT !.d = TranslateTo(dragged.d,
                                                                   getBoundingBox(dragged),
                                                                   newX, newY)]
                            ref == Len(heap) + 1
                        IN  /\ SetElements([elements EXCEPT ![index] = ref], Append(heap, moved),
                                           arrs, historyIndex)
                            /\ selectedElement' = ref
                ELSE /\ SetElements(elements, heap, arrs, historyIndex)
                     /\ selectedElement' = elements[index]
      /\ UNCHANGED <<gestureVars, mode, snapToGrid, textVars, clipboard, storeVars, nextId,
                     codecVars, previewVars, callVars>>
      /\ log' = LogEdit(log)

\* handleMouseMove: drawing: one more point
mouseMoveDraw(p) ==
  /\ ~(isResizing /\ selectedElement # 0) /\ draggedElement = 0 /\ isDrawing
  /\ Len(pathPoints) < MaxPathPoints
  /\ pathPoints' = Append(pathPoints, p)
  /\ drawingPath' = PathData(Append(pathPoints, p))
  /\ UNCHANGED <<sceneVars, historyVars, selectedElement, draggedElement, offset,
                 isResizing, resizeDirection, initialSize, initialPosition, isDrawing,
                 mode, snapToGrid, textVars, clipboard, storeVars, nextId, codecVars,
                 previewVars, callVars, log>>

handleMouseMove(p) ==
  \/ mouseMoveIdle(p)
  \/ mouseMoveStale(p)
  \/ mouseMoveResize(p)
  \/ mouseMoveDrag(p)
  \/ mouseMoveDraw(p)

\* handleMouseUp creating the path from the first collected point on.
handleMouseUpAnyPoint ==
  /\ IF isDrawing /\ Len(pathPoints) > 0
     THEN /\ Len(heap) < MaxRefs
          /\ LET ref == Len(heap) + 1
             IN  /\ SetElements(Append(elements, ref),
                                Append(heap, createPath(ref, pathPoints)), arrs, historyIndex)
                 /\ selectedElement' = ref
     ELSE UNCHANGED <<sceneVars, historyVars, selectedElement>>
  /\ IF isDrawing
     THEN isDrawing' = FALSE /\ pathPoints' = <<>> /\ drawingPath' = <<>>
     ELSE UNCHANGED <<isDrawing, pathPoints, drawingPath>>
  /\ draggedElement' = 0
  /\ isResizing' = FALSE
  /\ UNCHANGED <<offset, resizeDirection, initialSize, initialPosition, mode, snapToGrid,
                 textVars, clipboard, storeVars, nextId, codecVars, previewVars, callVars>>
  /\ log' = (IF isDrawing /\ Len(pathPoints) > 0 THEN LogEdit(log) ELSE log)

\* handleMouseUp.
handleMouseUp ==
  /\ IF isDrawing /\ Len(pathPoints) > 1
     THEN /\ Len(heap) < MaxRefs
          /\ LET ref == Len(heap) + 1
             IN  /\ SetElements(Append(elements, ref),
                                Append(heap, createPath(ref, pathPoints)), arrs, historyIndex)
                 /\ selectedElement' = ref
     ELSE UNCHANGED <<sceneVars, historyVars, selectedElement>>
  /\ IF isDrawing
     THEN isDrawing' = FALSE /\ pathPoints' = <<>> /\ drawingPath' = <<>>
     ELSE UNCHANGED <<isDrawing, pathPoints, drawingPath>>
  /\ draggedElement' = 0
  /\ isResizing' = FALSE
  /\ UNCHANGED <<offset, resizeDirection, initialSize, initialPosition, mode, snapToGrid,
                 textVars, clipboard, storeVars, nextId, codecVars, previewVars, callVars>>
  /\ log' = (IF isDrawing /\ Len(pathPoints) > 1 THEN LogEdit(log) ELSE log)

\* ------------------------------------------------------------ keyboard
\* handleKeyDown with the event's key and modifiers (ctrl: ctrlKey or metaKey).
\* Redo that wraps around from the last snapshot to the first.
keyRedoWrap(key, ctrl, shift) ==
  /\ ctrl /\ key = "z" /\ shift
  /\ IF historyIndex < Len(history) - 1
     THEN /\ SetElements(history[historyIndex + 2], heap, arrs, historyIndex + 1)
     ELSE IF Len(history) > 0 THEN SetElements(history[1], heap, arrs, 0)
     ELSE /\ UNCHANGED <<sceneVars, historyVars>>
  /\ UNCHANGED <<selectedElement, gestureVars, mode, snapToGrid, textVars, clipboard,
                 storeVars, nextId, codecVars, previewVars, callVars>>
  /\ log' = LogRedo(log)

\* handleKeyDown: redo
keyRedo(key, ctrl, shift) ==
  /\ ctrl /\ key = "z" /\ shift
  /\ IF historyIndex < Len(history) - 1
     THEN /\ SetElements(history[historyIndex + 2], heap, arrs, historyIndex + 1)
     ELSE /\ UNCHANGED <<sceneVars, historyVars>>
  /\ UNCHANGED <<selectedElement, gestureVars, mode, snapToGrid, textVars, clipboard,
                 storeVars, nextId, codecVars, previewVars, callVars>>
  /\ log' = LogRedo(log)

\* handleKeyDown: undo
keyUndo(key, ctrl, shift) ==
  LET
    \* One more undo after the edits; the first remembers the scene after En.
    LogUndo(l, scene) ==
      IF l.ok /\ l.n > 0 /\ l.r = 0 /\ l.u < l.n
      THEN [l EXCEPT !.u = l.u + 1, !.post = IF l.u = 0 THEN scene ELSE l.post]
      ELSE LogOff
  IN  /\ ctrl /\ key = "z" /\ ~shift
      /\ IF historyIndex > 0
         THEN /\ SetElements(history[historyIndex], heap, arrs, historyIndex - 1)
         ELSE /\ UNCHANGED <<sceneVars, historyVars>>
      /\ UNCHANGED <<selectedElement, gestureVars, mode, snapToGrid, textVars, clipboard,
                     storeVars, nextId, codecVars, previewVars, callVars>>
      /\ log' = LogUndo(log, ContentOf(elements, heap, arrs))

\* handleKeyDown: delete the selected element
keyDelete(key, ctrl, shift) ==
  /\ key = "Delete" /\ selectedElement # 0
  /\ LET id == heap[selectedElement].id
         keep == {i \in 1..Len(elements) : heap[elements[i]].id # id}
         F[i \in 0..Len(elements)] ==
           IF i = 0 THEN <<>>
           ELSE IF i \in keep THEN Append(F[i - 1], elements[i]) ELSE F[i - 1]
     IN  SetElements(F[Len(elements)], heap, arrs, historyIndex)
  /\ selectedElement' = 0
  /\ UNCHANGED <<gestureVars, mode, snapToGrid, textVars, clipboard, storeVars, nextId,
                 codecVars, previewVars, callVars>>
  /\ log' = LogEdit(log)

\* handleKeyDown: copy: { ...selectedElement, id: null }
keyCopy(key, ctrl, shift) ==
  /\ ctrl /\ key = "c" /\ selectedElement # 0
  /\ clipboard' = <<[heap[selectedElement] EXCEPT !.id = Null]>>
  /\ UNCHANGED <<sceneVars, historyVars, selectedElement, gestureVars, mode, snapToGrid,
                 textVars, storeVars, nextId, codecVars, previewVars, callVars, log>>

\* handleKeyDown: paste: { ...clipboard, id: generateId() }, offset by 20
keyPaste(key, ctrl, shift) ==
  /\ ctrl /\ key = "v" /\ clipboard # <<>>
  /\ Len(heap) < MaxRefs
  /\ LET ref == Len(heap) + 1
         c == [clipboard[1] EXCEPT !.id = ref]
         new == CASE c.type \in {"rect", "text"} ->
                       [c EXCEPT !.x = Add(c.x, 20), !.y = Add(c.y, 20)]
                  [] c.type = "circle" ->
                       [c EXCEPT !.cx = Add(c.cx, 20), !.cy = Add(c.cy, 20)]
                  [] c.type = "path" ->
                       [c EXCEPT !.d = TranslatePath(c.d, 20, 20)]
                  [] OTHER -> c
     IN  /\ SetElements(Append(elements, ref), Append(heap, new), arrs, historyIndex)
         /\ selectedElement' = ref
  /\ UNCHANGED <<gestureVars, mode, snapToGrid, textVars, clipboard, storeVars, nextId,
                 codecVars, previewVars, callVars>>
  /\ log' = LogEdit(log)

\* handleKeyDown: any other key or combination (Escape among them): no branch applies
keyOther(key, ctrl, shift) ==
  /\ ~(ctrl /\ key = "z")
  /\ ~(key = "Delete" /\ selectedElement # 0)
  /\ ~(ctrl /\ key = "c" /\ selectedElement # 0)
  /\ ~(ctrl /\ key = "v" /\ clipboard # <<>>)
  /\ UNCHANGED vars

handleKeyDown(key, ctrl, shift) ==
  \/ keyRedo(key, ctrl, shift)
  \/ keyUndo(key, ctrl, shift)
  \/ keyDelete(key, ctrl, shift)
  \/ keyCopy(key, ctrl, shift)
  \/ keyPaste(key, ctrl, shift)
  \/ keyOther(key, ctrl, shift)

\* The toolbar buttons: setHistoryIndex returns undefined, so the && chain
\* stops before setElements.
\* The button without its guard.
toolbarUndoUnguarded ==
  /\ historyIndex' = historyIndex - 1
  /\ UNCHANGED <<sceneVars, history, selectedElement, gestureVars, mode, snapToGrid,
                 textVars, clipboard, storeVars, nextId, codecVars, previewVars, callVars>>
  /\ log' = LogOff

toolbarUndo ==
  /\ IF historyIndex > 0 THEN historyIndex' = historyIndex - 1 ELSE UNCHANGED historyIndex
  /\ UNCHANGED <<sceneVars, history, selectedElement, gestureVars, mode, snapToGrid,
                 textVars, clipboard, storeVars, nextId, codecVars, previewVars, callVars>>
  /\ log' = LogOff

toolbarRedo ==
  /\ IF historyIndex < Len(history) - 1
     THEN historyIndex' = historyIndex + 1 ELSE UNCHANGED historyIndex
  /\ UNCHANGED <<sceneVars, history, selectedElement, gestureVars, mode, snapToGrid,
                 textVars, clipboard, storeVars, nextId, codecVars, previewVars, callVars>>
  /\ log' = LogOff

\* ---------------------------------------------------------- text input
handleTextInputComplete ==
  /\ IF Trim(textInput) # ""
     THEN /\ Len(heap) < MaxRefs
          /\ LET ref == Len(heap) + 1
                 new == createText(snapToGrid, ref, textPosition.x, textPosition.y, textInput)
             IN  /\ SetElements(Append(elements, ref), Append(heap, new), arrs, historyIndex)
                 /\ selectedElement' = ref
     ELSE UNCHANGED <<sceneVars, historyVars, selectedElement>>
  /\ showTextInput' = FALSE
  /\ textInput' = ""
  /\ UNCHANGED <<gestureVars, mode, snapToGrid, textPosition, clipboard, storeVars, nextId,
                 codecVars, previewVars, callVars>>
  /\ log' = (IF Trim(textInput) # "" THEN LogEdit(log) ELSE log)

\* The input's onChange.
textInputChange(value) ==
  /\ showTextInput
  /\ textInput' = value
  /\ UNCHANGED <<sceneVars, historyVars, selectedElement, gestureVars, mode, snapToGrid,
                 showTextInput, textPosition, clipboard, storeVars, nextId, codecVars,
                 previewVars, callVars, log>>

\* The input's onKeyDown (Enter, Escape, any other key) and onBlur.
textInputKeyDown(key) ==
  /\ showTextInput
  /\ \/ key = "Enter" /\ handleTextInputComplete
     \/ /\ key = "Escape"
        /\ showTextInput' = FALSE
        /\ textInput' = ""
        /\ UNCHANGED <<sceneVars, historyVars, selectedElement, gestureVars, mode,
                       snapToGrid, textPosition, clipboard, storeVars, nextId, codecVars,
                       previewVars, callVars, log>>
     \/ key \notin {"Enter", "Escape"} /\ UNCHANGED vars

textInputBlur ==
  /\ showTextInput
  /\ handleTextInputComplete

\* ------------------------------------------------------------- toolbar
setMode(m) ==
  /\ mode' = m
  /\ UNCHANGED <<sceneVars, historyVars, selectedElement, gestureVars, snapToGrid,
                 textVars, clipboard, storeVars, nextId, codecVars, previewVars, callVars,
                 log>>

\* The Snap checkbox.
toggleSnapToGrid ==
  /\ snapToGrid' = ~snapToGrid
  /\ UNCHANGED <<sceneVars, historyVars, selectedElement, gestureVars, mode, textVars,
                 clipboard, storeVars, nextId, codecVars, previewVars, callVars, log>>

\* ------------------------------------------------------ property panel
\* The Fill input's onChange (the panel is rendered while a shape is
\* selected): the scene object is replaced by a copy with the new fill.
editFill(value) ==
  /\ selectedElement # 0
  /\ LET index == findIndex(elements, heap, heap[selectedElement].id)
     IN  IF index # 0
         THEN /\ Len(heap) < MaxRefs
              /\ LET ref == Len(heap) + 1
                     new == [heap[elements[index]] EXCEPT !.fill = value]
                 IN  /\ SetElements([elements EXCEPT ![index] = ref], Append(heap, new),
                                    arrs, historyIndex)
                     /\ selectedElement' = ref
              /\ log' = LogEdit(log)
              /\ UNCHANGED <<gestureVars, mode, snapToGrid, textVars, clipboard, storeVars,
                             nextId, codecVars, previewVars, callVars>>
         ELSE UNCHANGED vars

\* --------------------------------------------------------- filter panel
\* "Add Gaussian Blur": a new filter, selected.
addFilter ==
  /\ Len(svgFilters) < MaxResources
  /\ nextId <= MaxIds
  /\ svgFilters' = Append(svgFilters, FilterId(nextId))
  /\ selectedFilterId' = FilterId(nextId)
  /\ nextId' = nextId + 1
  /\ UNCHANGED <<sceneVars, historyVars, selectedElement, gestureVars, mode, snapToGrid,
                 textVars, clipboard, animations, selectedAnimationId, svgGradients,
                 codecVars, previewVars, callVars, log>>

\* A Delete Filter that also takes the filter off the shapes that use it.
deleteFilterCascade ==
  /\ selectedFilterId # Null
  /\ svgFilters' = SelectSeq(svgFilters, LAMBDA f : f # selectedFilterId)
  /\ selectedFilterId' = Null
  /\ heap' = [r \in 1..Len(heap) |->
                IF heap[r].filter = selectedFilterId THEN [heap[r] EXCEPT !.filter = Undef]
                ELSE heap[r]]
  /\ UNCHANGED <<elements, arrs, historyVars, selectedElement, gestureVars, mode,
                 snapToGrid, textVars, clipboard, animations, selectedAnimationId,
                 svgGradients, nextId, codecVars, previewVars, callVars, log>>

\* "Delete Filter" (rendered while a filter is selected).
deleteFilter ==
  /\ selectedFilterId # Null
  /\ svgFilters' = SelectSeq(svgFilters, LAMBDA f : f # selectedFilterId)
  /\ selectedFilterId' = Null
  /\ UNCHANGED <<sceneVars, historyVars, selectedElement, gestureVars, mode, snapToGrid,
                 textVars, clipboard, animations, selectedAnimationId, svgGradients,
                 nextId, codecVars, previewVars, callVars, log>>

\* "Apply to Selected Element" (rendered while a filter is selected).
applyFilter ==
  /\ selectedFilterId # Null
  /\ IF selectedElement # 0 /\ findIndex(elements, heap, heap[selectedElement].id) # 0
     THEN /\ Len(heap) < MaxRefs
          /\ LET index == findIndex(elements, heap, heap[selectedElement].id)
                 ref == Len(heap) + 1
                 old == heap[elements[index]]
                 new == [old EXCEPT !.filter = selectedFilterId,
                                    !.keys = AddKey(old.keys, "filter")]
             IN  /\ SetElements([elements EXCEPT ![index] = ref], Append(heap, new),
                                arrs, historyIndex)
                 /\ selectedElement' = ref
          /\ log' = LogOff
          /\ UNCHANGED <<gestureVars, mode, snapToGrid, textVars, clipboard, storeVars,
                         nextId, codecVars, previewVars, callVars>>
     ELSE UNCHANGED vars

\* ------------------------------------------------------ animation panel
\* "Add Rotation": a catalog entry targeting the selected element.
addRotation ==
  /\ IF selectedElement = 0 THEN UNCHANGED vars
     ELSE /\ Len(animations) < MaxResources
          /\ nextId <= MaxIds
          /\ animations' = Append(animations,
                                  Animation(AnimId(nextId), heap[selectedElement].id,
                                            "rotate", 3))
          /\ selectedAnimationId' = AnimId(nextId)
          /\ nextId' = nextId + 1
          /\ UNCHANGED <<sceneVars, historyVars, selectedElement, gestureVars, mode,
                         snapToGrid, textVars, clipboard, svgFilters, selectedFilterId,
                         svgGradients, codecVars, previewVars, callVars, log>>

\* An Apply Animation that pushes the copy with the identifier of the
\* catalog entry.
applyAnimationSameId ==
  /\ selectedAnimationId # Null
  /\ LET found == {i \in 1..Len(animations) : animations[i].id = selectedAnimationId}
     IN  IF found = {} THEN UNCHANGED vars
         ELSE LET anim == animations[Min(found)]
                  index == findIndex(elements, heap, anim.elementId)
              IN  IF index = 0 THEN UNCHANGED vars
                  ELSE LET ref == elements[index]
                           el == heap[ref]
                           fresh == el.animations = 0
                           a == IF fresh THEN Len(arrs) + 1 ELSE el.animations
                           arrs1 == IF fresh THEN Append(arrs, <<>>) ELSE arrs
                           appliedAnim == anim
                           heap1 == [heap EXCEPT ![ref] =
                                       [el EXCEPT !.animations = a,
                                                  !.keys = AddKey(el.keys, "animations")]]
                       IN  /\ Len(arrs1[a]) < MaxApplied
                           /\ SetElements(elements, heap1,
                                          [arrs1 EXCEPT ![a] = Append(@, appliedAnim)],
                                          historyIndex)
                           /\ selectedElement' = ref
                           /\ nextId' = nextId + 1
                           /\ log' = LogOff
                           /\ UNCHANGED <<gestureVars, mode, snapToGrid, textVars,
                                          clipboard, storeVars, codecVars, previewVars,
                                          callVars>>

\* "Apply Animation" (rendered while an animation is selected): the copy is
\* pushed onto the animations array of the scene object itself.
applyAnimation ==
  /\ selectedAnimationId # Null
  /\ LET found == {i \in 1..Len(animations) : animations[i].id = selectedAnimationId}
     IN  IF found = {} THEN UNCHANGED vars
         ELSE LET anim == animations[Min(found)]
                  index == findIndex(elements, heap, anim.elementId)
              IN  IF index = 0 THEN UNCHANGED vars
                  ELSE LET ref == elements[index]
                           el == heap[ref]
                           fresh == el.animations = 0
                           a == IF fresh THEN Len(arrs) + 1 ELSE el.animations
                           arrs1 == IF fresh THEN Append(arrs, <<>>) ELSE arrs
                           appliedAnim == [anim EXCEPT !.id = AppliedId(nextId)]
                           heap1 == [heap EXCEPT ![ref] =
                                       [el EXCEPT !.animations = a,
                                                  !.keys = AddKey(el.keys, "animations")]]
                       IN  /\ Len(arrs1[a]) < MaxApplied
                           /\ SetElements(elements, heap1,
                                          [arrs1 EXCEPT ![a] = Append(@, appliedAnim)],
                                          historyIndex)
                           /\ selectedElement' = ref
                           /\ nextId' = nextId + 1
                           /\ log' = LogOff
                           /\ UNCHANGED <<gestureVars, mode, snapToGrid, textVars,
                                          clipboard, storeVars, codecVars, previewVars,
                                          callVars>>

\* A click on an entry of the animation list.
selectAnimation ==
  /\ \E i \in 1..Len(animations) : selectedAnimationId' = animations[i].id
  /\ UNCHANGED <<sceneVars, historyVars, selectedElement, gestureVars, mode, snapToGrid,
                 textVars, clipboard, svgFilters, selectedFilterId, animations,
                 svgGradients, nextId, codecVars, previewVars, callVars, log>>

\* The index of the catalog entry a.id === selectedAnimationId, 0 for -1.
SelectedAnimationIndex ==
  LET found == {i \in 1..Len(animations) : animations[i].id = selectedAnimationId}
  IN  IF found = {} THEN 0 ELSE Min(found)

\* The Duration input (rendered while the selected animation is in the
\* catalog): the entry is replaced by a copy with the new dur.
editDuration(value) ==
  /\ selectedAnimationId # Null /\ SelectedAnimationIndex # 0
  /\ animations' = [animations EXCEPT ![SelectedAnimationIndex].dur = value]
  /\ UNCHANGED <<sceneVars, historyVars, selectedElement, gestureVars, mode, snapToGrid,
                 textVars, clipboard, svgFilters, selectedFilterId, selectedAnimationId,
                 svgGradients, nextId, codecVars, previewVars, callVars, log>>

\* "Delete Animation" (rendered while an animation is selected).
deleteAnimation ==
  /\ selectedAnimationId # Null
  /\ animations' = SelectSeq(animations, LAMBDA a : a.id # selectedAnimationId)
  /\ selectedAnimationId' = Null
  /\ UNCHANGED <<sceneVars, historyVars, selectedElement, gestureVars, mode, snapToGrid,
                 textVars, clipboard, svgFilters, selectedFilterId, svgGradients, nextId,
                 codecVars, previewVars, callVars, log>>

\* keyTimes: '0;0.25;0.5;0.75;1', the string of the Path Morph descriptor.
MorphKeyTimes ==
  <<"0", ";", "0", ".", "2", "5", ";", "0", ".", "5", ";", "0", ".", "7", "5", ";", "1">>

\* "Path Morph" (enabled while the selected element is a path).
addPathMorph(random) ==
  /\ selectedElement # 0 /\ heap[selectedElement].type = "path"
  /\ Len(animations) < MaxDescriptors
  /\ nextId <= MaxIds
  /\ animations' =
       Append(animations,
              [Animation(AnimId(nextId), heap[selectedElement].id, "motion", 5) EXCEPT
                 !.path = heap[selectedElement].d,
                 !.keyTimes = MorphKeyTimes,
                 !.values = generatePathVariations(heap[selectedElement].d, 5, 10, random)])
  /\ selectedAnimationId' = AnimId(nextId)
  /\ nextId' = nextId + 1
  /\ UNCHANGED <<sceneVars, historyVars, selectedElement, gestureVars, mode, snapToGrid,
                 textVars, clipboard, svgFilters, selectedFilterId, svgGradients,
                 codecVars, previewVars, callVars, log>>

\* anim.motionType || 'morph'.
MotionTypeOf(anim) == IF anim.motionType = "" THEN "morph" ELSE anim.motionType

\* The motion controls are rendered for the selected animation when
\* anim.type === 'motion' && anim.path.
MotionControlsShown ==
  /\ selectedAnimationId # Null /\ SelectedAnimationIndex # 0
  /\ animations[SelectedAnimationIndex].type = "motion"
  /\ animations[SelectedAnimationIndex].path # <<>>

\* The Motion Type select.
setMotionType(value) ==
  /\ MotionControlsShown
  /\ animations' = [animations EXCEPT ![SelectedAnimationIndex].motionType = value]
  /\ UNCHANGED <<sceneVars, historyVars, selectedElement, gestureVars, mode, snapToGrid,
                 textVars, clipboard, svgFilters, selectedFilterId, selectedAnimationId,
                 svgGradients, nextId, codecVars, previewVars, callVars, log>>

\* The Intensity input with the variations made from the variations the
\* entry holds.
setIntensityFromValues(value, random) ==
  /\ MotionControlsShown
  /\ LET anim == animations[SelectedAnimationIndex]
         pathVariations ==
           CASE MotionTypeOf(anim) = "jitter" ->
                  generateJitterPaths(anim.values, value, 5, random)
             [] MotionTypeOf(anim) = "wave" ->
                  generateWavePaths(anim.values, value, 5)
             [] OTHER -> generatePathVariations(anim.values, 5, 2 * value, random)
     IN  animations' = [animations EXCEPT ![SelectedAnimationIndex].intensity = value,
                                          ![SelectedAnimationIndex].values = pathVariations]
  /\ UNCHANGED <<sceneVars, historyVars, selectedElement, gestureVars, mode, snapToGrid,
                 textVars, clipboard, svgFilters, selectedFilterId, selectedAnimationId,
                 svgGradients, nextId, codecVars, previewVars, callVars, log>>

\* The Intensity input: the variations are generated again from anim.path
\* by the generator of anim.motionType || 'morph'; morph is given
\* intensity / 10.
setIntensity(value, random) ==
  /\ MotionControlsShown
  /\ LET anim == animations[SelectedAnimationIndex]
         pathVariations ==
           CASE MotionTypeOf(anim) = "jitter" ->
                  generateJitterPaths(anim.path, value, 5, random)
             [] MotionTypeOf(anim) = "wave" ->
                  generateWavePaths(anim.path, value, 5)
             [] OTHER -> generatePathVariations(anim.path, 5, 2 * value, random)
     IN  animations' = [animations EXCEPT ![SelectedAnimationIndex].intensity = value,
                                          ![SelectedAnimationIndex].values = pathVariations]
  /\ UNCHANGED <<sceneVars, historyVars, selectedElement, gestureVars, mode, snapToGrid,
                 textVars, clipboard, svgFilters, selectedFilterId, selectedAnimationId,
                 svgGradients, nextId, codecVars, previewVars, callVars, log>>

\* "Preview Animations" / "Stop Preview" (rendered while an animation is
\* selected): the timer effect of the next render starts or clears the
\* interval.
togglePreview ==
  /\ selectedAnimationId # Null
  /\ previewAnimation' = ~previewAnimation
  /\ UNCHANGED <<sceneVars, historyVars, selectedElement, gestureVars, mode, snapToGrid,
                 textVars, clipboard, storeVars, nextId, codecVars, timePosition, callVars,
                 log>>

\* "Stop" of the banner shown while the preview is on.
stopPreview ==
  /\ previewAnimation
  /\ previewAnimation' = FALSE
  /\ UNCHANGED <<sceneVars, historyVars, selectedElement, gestureVars, mode, snapToGrid,
                 textVars, clipboard, storeVars, nextId, codecVars, timePosition, callVars,
                 log>>

\* A tick of the timer without the interval of the effect: it fires whether
\* the preview is on or not.
timerTickUnguarded ==
  /\ timePosition < 50 * MaxTicks
  /\ timePosition' = timePosition + 50
  /\ UNCHANGED <<sceneVars, historyVars, selectedElement, gestureVars, mode, snapToGrid,
                 textVars, clipboard, storeVars, nextId, codecVars, previewAnimation,
                 callVars, log>>

\* The callback of the interval that the timer effect keeps while
\* previewAnimation is true: setTimePosition(prev => prev + 50).
timerTick ==
  /\ previewAnimation
  /\ timePosition < 50 * MaxTicks
  /\ timePosition' = timePosition + 50
  /\ UNCHANGED <<sceneVars, historyVars, selectedElement, gestureVars, mode, snapToGrid,
                 textVars, clipboard, storeVars, nextId, codecVars, previewAnimation,
                 callVars, log>>

\* ------------------------------------------------------ specifications
\* Each specification runs the handlers of one part of the editor.
Keys == {"z", "Delete", "Escape"}

\* The scene and its history: rectangles are created, resized, restyled,
\* deleted, undone and redone from the keyboard and from the toolbar.
Next ==
  \/ \E p \in Points : mouseDownCreate(p, "canvas")
  \/ \E p \in Points : mouseMoveResize(p)
  \/ handleMouseUp
  \/ \E key \in Keys : \E ctrl, shift \in BOOLEAN :
       \/ keyRedo(key, ctrl, shift)
       \/ keyUndo(key, ctrl, shift)
       \/ keyDelete(key, ctrl, shift)
       \/ keyOther(key, ctrl, shift)
  \/ toolbarUndo
  \/ toolbarRedo
  \/ \E m \in {"select", "rect"} : setMode(m)
  \/ \E value \in Fills : editFill(value)

Spec == Init /\ [][Next]_vars

\* The same part of the editor without the toolbar, the run followed from
\* the start: edits, then undos, then redos.
NextLog ==
  \/ \E p \in Points : mouseDownCreate(p, "canvas")
  \/ \E p \in Points : mouseMoveResize(p)
  \/ handleMouseUp
  \/ \E key \in Keys : \E ctrl, shift \in BOOLEAN :
       \/ keyRedo(key, ctrl, shift)
       \/ keyUndo(key, ctrl, shift)
       \/ keyDelete(key, ctrl, shift)
  \/ \E m \in {"select", "rect"} : setMode(m)
  \/ \E value \in Fills : editFill(value)

SpecLog == InitLog /\ [][NextLog]_vars

\* The path and text tools: drawing gestures, the text input, Escape.
NextTools ==
  \/ \E p \in Points :
       \/ mouseDownText(p, "canvas")
       \/ mouseDownPath(p, "canvas")
  \/ \E p \in Points :
       \/ mouseMoveIdle(p)
       \/ mouseMoveDraw(p)
  \/ handleMouseUp
  \/ \E key \in Keys : \E ctrl, shift \in BOOLEAN :
       \/ keyRedo(key, ctrl, shift)
       \/ keyUndo(key, ctrl, shift)
       \/ keyOther(key, ctrl, shift)
  \/ \E value \in Texts : textInputChange(value)
  \/ \E key \in {"Enter", "Escape", "a"} : textInputKeyDown(key)
  \/ textInputBlur
  \/ \E m \in {"text", "path"} : setMode(m)

SpecTools == Init /\ [][NextTools]_vars

\* A text shape that is filtered and resized across undo and redo.
NextText ==
  \/ \E p \in Points :
       \/ mouseDownText(p, "canvas")
       \/ mouseDownHandle(p, "e")
  \/ \E p \in Points : mouseMoveResize(p)
  \/ \E key \in {"z"} : \E ctrl \in {TRUE} : \E shift \in {FALSE} : keyUndo(key, ctrl, shift)
  \/ toolbarRedo
  \/ \E value \in Texts : textInputChange(value)
  \/ textInputBlur
  \/ \E m \in {"select", "text"} : setMode(m)
  \/ addFilter
  \/ applyFilter

SpecText == Init /\ [][NextText]_vars

\* The panels: filters and animations applied to rectangles that are
\* created, dragged, resized, restyled, deleted and undone.
NextPanels ==
  \/ \E p \in PanelPoints : mouseDownCreate(p, "canvas")
  \/ \E p \in PanelPoints :
       \/ mouseMoveStale(p)
       \/ mouseMoveResize(p)
       \/ mouseMoveDrag(p)
  \/ handleMouseUp
  \/ \E key \in {"z", "Delete"} : \E ctrl \in BOOLEAN : \E shift \in {FALSE} :
       \/ keyUndo(key, ctrl, shift)
       \/ keyDelete(key, ctrl, shift)
  \/ \E m \in {"rect"} : setMode(m)
  \/ \E value \in Fills : editFill(value)
  \/ addFilter
  \/ applyFilter
  \/ addRotation
  \/ applyAnimation

SpecPanels == Init /\ [][NextPanels]_vars

\* Resizing: one rectangle is created at or away from the origin, taken by
\* its "se" or "nw" handle and resized, with snapping on or off.
GeoPoints == {Pt(0, 0), Pt(40, 30), Pt(100, 80)}

NextResize ==
  \/ \E p \in GeoPoints : Len(elements) < MaxResized /\ mouseDownCreate(p, "canvas")
  \/ \E p \in GeoPoints : \E dir \in {"se", "nw"} : mouseDownHandle(p, dir)
  \/ \E p \in GeoPoints : mouseMoveResize(p)
  \/ handleMouseUp
  \/ \E m \in {"select", "rect"} : setMode(m)
  \/ toggleSnapToGrid

SpecResize == Init /\ [][NextResize]_vars

\* Dragging: rectangles are created at or away from the origin, pressed and
\* dragged, with snapping on or off.
DragPoints == {Pt(0, 0), Pt(40, 30)}

NextDrag ==
  \/ \E p \in DragPoints :
       \/ mouseDownCreate(p, "canvas")
       \/ mouseDownShape(p, "canvas")
       \/ mouseDownEmpty(p, "canvas")
  \/ \E p \in DragPoints :
       \/ mouseMoveResize(p)
       \/ mouseMoveDrag(p)
  \/ handleMouseUp
  \/ \E m \in {"select", "rect"} : setMode(m)
  \/ toggleSnapToGrid

SpecDrag == Init /\ [][NextDrag]_vars

\* Paths: paths are drawn, pressed in select mode, copied and pasted.
DrawPoints == {Pt(30, 40), Pt(50, 60)}

NextPath ==
  \/ \E p \in DrawPoints :
       \/ mouseDownPath(p, "canvas")
       \/ mouseDownEmpty(p, "canvas")
  \/ \E p \in DrawPoints : mouseMoveDraw(p)
  \/ handleMouseUp
  \/ keyCopy("c", TRUE, FALSE)
  \/ keyPaste("v", TRUE, FALSE)
  \/ \E m \in {"select", "path"} : setMode(m)

SpecPath == Init /\ [][NextPath]_vars

\* The path codec on its own: a path string of M and L commands with whole
\* coordinates, written with the separators SVG allows, is parsed and the
\* segments are written back.
CodecCoords == {7, -12}
CodecCases ==
  LET
    CodecCommands == [command : {"M", "L"}, x : CodecCoords, y : CodecCoords]
    CodecPaths ==
      UNION {{cmds \in [1..n -> CodecCommands] : cmds[1].command = "M"} : n \in 1..MaxCommands}
    \* after: between the letter and the first number; pair: between the two
    \* numbers; between: between two commands.
    CodecStyles ==
      [after : {<<>>, <<" ">>}, pair : {<<" ">>, <<",">>, <<",", " ">>}, between : {<<>>, <<" ">>}]
  IN  [cmds : CodecPaths, style : CodecStyles]

RECURSIVE WritePathUpTo(_, _, _)
WritePathUpTo(cmds, style, i) ==
  IF i = 0 THEN <<>>
  ELSE (IF i = 1 THEN <<>> ELSE WritePathUpTo(cmds, style, i - 1) \o style.between)
         \o <<cmds[i].command>> \o style.after \o NumToStr(cmds[i].x)
         \o style.pair \o NumToStr(cmds[i].y)
WritePath(c) == WritePathUpTo(c.cmds, c.style, Len(c.cmds))

InitCodec ==
  LET
    CodecInputs == {WritePath(c) : c \in CodecCases}
  IN  /\ elements = <<>> /\ heap = <<>> /\ arrs = <<>>
      /\ history = <<>> /\ historyIndex = -1
      /\ selectedElement = 0 /\ draggedElement = 0
      /\ offset = Pt(0, 0)
      /\ isResizing = FALSE /\ resizeDirection = ""
      /\ initialSize = [width |-> 0, height |-> 0]
      /\ initialPosition = Pt(0, 0)
      /\ isDrawing = FALSE /\ pathPoints = <<>> /\ drawingPath = <<>>
      /\ mode = "select" /\ snapToGrid = TRUE
      /\ textInput = "" /\ showTextInput = FALSE /\ textPosition = Pt(0, 0)
      /\ clipboard = <<>>
      /\ svgFilters = <<>> /\ selectedFilterId = Null
      /\ animations = <<>> /\ selectedAnimationId = Null
      /\ svgGradients = <<>>
      /\ nextId = 1
      /\ pathData \in CodecInputs /\ segments = <<>>
      /\ previewAnimation = FALSE /\ timePosition = 0
      /\ snapArg = 0 /\ constructed = <<>>
      /\ log = LogOff

\* segments = parsePath(pathData).
callParsePath ==
  /\ segments' = parsePath(pathData)
  /\ UNCHANGED <<sceneVars, historyVars, selectedElement, gestureVars, mode, snapToGrid,
                 textVars, clipboard, storeVars, nextId, pathData, previewVars, callVars, log>>

\* pathData = stringifyPath(segments), on the segments of a parse.
callStringifyPath ==
  /\ Len(segments) > 0
  /\ Len(stringifyPath(segments)) <= MaxPathChars
  /\ pathData' = stringifyPath(segments)
  /\ UNCHANGED <<sceneVars, historyVars, selectedElement, gestureVars, mode, snapToGrid,
                 textVars, clipboard, storeVars, nextId, segments, previewVars, callVars, log>>

NextCodec == callParsePath \/ callStringifyPath

SpecCodec == InitCodec /\ [][NextCodec]_vars

\* snapToGridValue on its own: a value off the grid, NaN, an infinity or
\* undefined is snapped, and snapped again, with snapping on or off.
SnapInputs ==
  {v \in (-MaxSnapArg)..MaxSnapArg : v % gridSize # 0} \cup {NaN, Infinity, NegInfinity, Undef}

InitSnap ==
  /\ elements = <<>> /\ heap = <<>> /\ arrs = <<>>
  /\ history = <<>> /\ historyIndex = -1
  /\ selectedElement = 0 /\ draggedElement = 0
  /\ offset = Pt(0, 0)
  /\ isResizing = FALSE /\ resizeDirection = ""
  /\ initialSize = [width |-> 0, height |-> 0]
  /\ initialPosition = Pt(0, 0)
  /\ isDrawing = FALSE /\ pathPoints = <<>> /\ drawingPath = <<>>
  /\ mode = "select" /\ snapToGrid = TRUE
  /\ textInput = "" /\ showTextInput = FALSE /\ textPosition = Pt(0, 0)
  /\ clipboard = <<>>
  /\ svgFilters = <<>> /\ selectedFilterId = Null
  /\ animations = <<>> /\ selectedAnimationId = Null
  /\ svgGradients = <<>>
  /\ nextId = 1
  /\ pathData = <<>> /\ segments = <<>>
  /\ previewAnimation = FALSE /\ timePosition = 0
  /\ snapArg \in SnapInputs /\ constructed = <<>>
  /\ log = LogOff

\* snapArg = snapToGridValue(snapArg).
callSnapToGridValue ==
  /\ snapArg' = snapToGridValue(snapToGrid, snapArg)
  /\ UNCHANGED constructed
  /\ UNCHANGED <<sceneVars, historyVars, selectedElement, gestureVars, mode, snapToGrid,
                 textVars, clipboard, storeVars, nextId, codecVars, previewVars, log>>

NextSnap == callSnapToGridValue \/ toggleSnapToGrid

SpecSnap == InitSnap /\ [][NextSnap]_vars

\* The constructors on their own: each is called with positions on and off
\* the grid and with sizes off the grid, with snapping on or off.
CreateCoords == {30, 47, 100}
CreateSizes == {0, 50}

\* The call of a constructor: its arguments, the flag it read and the
\* shapes it returned.
Constructed(x, y, sizes, shapes) ==
  <<[x |-> x, y |-> y, sizes |-> sizes, snap |-> snapToGrid, shapes |-> shapes]>>

callCreateRectangle ==
  /\ \E x \in CreateCoords : \E y \in CreateCoords :
       \E width \in CreateSizes : \E height \in CreateSizes :
         constructed' = Constructed(x, y, <<width, height>>,
                          <<createRectangle(snapToGrid, 1, x, y, width, height)>>)
  /\ UNCHANGED <<sceneVars, historyVars, selectedElement, gestureVars, mode, snapToGrid,
                 textVars, clipboard, storeVars, nextId, codecVars, previewVars, snapArg, log>>

callCreateCircle ==
  /\ \E x \in CreateCoords : \E y \in CreateCoords : \E radius \in CreateSizes :
       constructed' = Constructed(x, y, <<radius>>,
                        <<createCircle(snapToGrid, 1, x, y, radius)>>)
  /\ UNCHANGED <<sceneVars, historyVars, selectedElement, gestureVars, mode, snapToGrid,
                 textVars, clipboard, storeVars, nextId, codecVars, previewVars, snapArg, log>>

callCreateText ==
  /\ \E x \in CreateCoords : \E y \in CreateCoords : \E text \in Texts :
       constructed' = Constructed(x, y, <<>>, <<createText(snapToGrid, 1, x, y, text)>>)
  /\ UNCHANGED <<sceneVars, historyVars, selectedElement, gestureVars, mode, snapToGrid,
                 textVars, clipboard, storeVars, nextId, codecVars, previewVars, snapArg, log>>

callCreateQuantumEffect ==
  /\ \E x \in CreateCoords : \E y \in CreateCoords : \E same \in IdOutcomes(4) :
       constructed' = Constructed(x, y, <<>>,
                        createQuantumEffect(snapToGrid, 0, same, x, y).elements)
  /\ UNCHANGED <<sceneVars, historyVars, selectedElement, gestureVars, mode, snapToGrid,
                 textVars, clipboard, storeVars, nextId, codecVars, previewVars, snapArg, log>>

NextCreate ==
  \/ callCreateRectangle
  \/ callCreateCircle
  \/ callCreateText
  \/ callCreateQuantumEffect
  \/ toggleSnapToGrid

SpecCreate == Init /\ [][NextCreate]_vars

\* The preview: a shape is created, resized, dragged and deleted and an
\* animation is added to the catalog while the preview timer ticks.
NextPreview ==
  \/ \E p \in PanelPoints : mouseDownCreate(p, "canvas")
  \/ \E p \in PanelPoints : mouseDownShape(p, "canvas")
  \/ \E p \in PanelPoints :
       \/ mouseMoveResize(p)
       \/ mouseMoveDrag(p)
  \/ handleMouseUp
  \/ \E key \in {"Delete"} : \E ctrl \in {FALSE} : \E shift \in {FALSE} :
       keyDelete(key, ctrl, shift)
  \/ \E m \in {"rect", "select"} : setMode(m)
  \/ addRotation
  \/ togglePreview
  \/ stopPreview
  \/ timerTick

SpecPreview == Init /\ [][NextPreview]_vars

\* The catalog: a rectangle is created and deleted, a filter and a rotation
\* are added, applied and deleted.
Durations == {7}

NextCatalog ==
  \/ \E p \in PanelPoints : mouseDownCreate(p, "canvas")
  \/ handleMouseUp
  \/ \E key \in {"Delete"} : \E ctrl \in {FALSE} : \E shift \in {FALSE} :
       keyDelete(key, ctrl, shift)
  \/ \E m \in {"rect"} : setMode(m)
  \/ addFilter
  \/ applyFilter
  \/ deleteFilter
  \/ addRotation
  \/ selectAnimation
  \/ \E value \in Durations : editDuration(value)
  \/ applyAnimation
  \/ deleteAnimation

SpecCatalog == Init /\ [][NextCatalog]_vars

\* Path motion: a path is drawn, Path Morph descriptors are added for it,
\* their motion type, intensity and duration are edited, they are applied
\* and deleted.
MotionTypes == {"morph", "jitter", "wave"}
Intensities == {1, 20}

NextMotion ==
  \/ \E p \in {Pt(30, 40)} : mouseDownPath(p, "canvas")
  \/ \E p \in DrawPoints : mouseMoveDraw(p)
  \/ handleMouseUp
  \/ \E m \in {"path"} : setMode(m)
  \/ \E random \in RandomTables : addPathMorph(random)
  \/ selectAnimation
  \/ \E value \in MotionTypes : setMotionType(value)
  \/ \E value \in Intensities : \E random \in RandomTables : setIntensity(value, random)
  \/ deleteAnimation

SpecMotion == Init /\ [][NextMotion]_vars

\* The composite effect: its ellipses are created, pressed and dragged.
EffectPoints == {Pt(40, 40), Pt(100, 60)}

NextEffect ==
  \/ \E p \in EffectPoints : \E same \in IdOutcomes(4) : mouseDownQuantum(p, "canvas", same)
  \/ \E p \in EffectPoints : mouseDownShape(p, "canvas")
  \/ \E p \in EffectPoints : mouseMoveDrag(p)
  \/ handleMouseUp
  \/ \E m \in {"quantum"} : setMode(m)
  \/ toggleSnapToGrid

SpecEffect == Init /\ [][NextEffect]_vars

\* ---------------------------------------------------------- properties
SceneAndHistory == <<elements, heap, arrs, history, historyIndex>>

\* C1: from the initial empty scene, after n edits E1..En, n undos give the
\* scene before E1 (the empty scene) and n redos after them give the scene
\* after En.
UndoRedoInverse ==
  (log.ok /\ log.n > 0 /\ log.u = log.n) =>
     /\ log.r = 0 => elements = <<>>
     /\ log.r = log.n => ContentOf(elements, heap, arrs) = log.post

\* C2: no step changes a shape field or an applied-animation list inside a
\* snapshot that history already holds.
RecordedSnapshotsNeverChange ==
  [][\A i \in 1..Len(history) :
       ContentOf(history[i], heap', arrs') = ContentOf(history[i], heap, arrs)]_vars

\* C3: the history index lies in -1..length-1 and is -1 exactly when the
\* history is empty.
HistoryIndexInRange ==
  /\ historyIndex \in -1..(Len(history) - 1)
  /\ historyIndex = -1 <=> Len(history) = 0
  /\ Len(history) > 0 => historyIndex \in 0..(Len(history) - 1)

\* C3 witness: a history of three snapshots with the index moved back to
\* the first one.
HistoryIndexMovedBack == Len(history) = 3 /\ historyIndex = 0

\* C4: a step that records a snapshot while the index is before the tail
\* keeps the snapshots up to the index, drops those after it, appends the new
\* scene and moves the index to it, so that redo has nothing left to do.
RecordDropsRedoTail ==
  [][(history' # history /\ historyIndex < Len(history) - 1) =>
       /\ history' = Append(SubSeq(history, 1, historyIndex + 1), elements')
       /\ historyIndex' = Len(history') - 1
       /\ ~(historyIndex' < Len(history') - 1)]_vars

\* C4 witness: shape 1 was restyled into object 2 (recorded), the restyling
\* was undone and a second shape was created: the snapshot holding object 2
\* is gone and the new scene is the last snapshot.
RedoTailDropped ==
  /\ Len(heap) = 3 /\ heap[2].id = 1 /\ heap[2].fill # heap[1].fill
  /\ history = <<(<<1>>), (<<1, 3>>)>> /\ historyIndex = 1
  /\ elements = <<1, 3>>

\* A step of undo or redo, from the keyboard or from the toolbar.
NavigationStep ==
  \/ keyUndo("z", TRUE, FALSE)
  \/ keyRedo("z", TRUE, TRUE)
  \/ toolbarUndo
  \/ toolbarRedo

\* C5: an editing step that leaves a scene whose content equals the content
\* of the snapshot at the current index changes neither the history nor the
\* index.
EqualSceneIsNotRecorded ==
  [][(/\ historyIndex >= 0
      /\ ~NavigationStep
      /\ ContentOf(elements', heap', arrs')
           = ContentOf(history[historyIndex + 1], heap', arrs'))
     => (history' = history /\ historyIndex' = historyIndex)]_vars

\* C6: undo with an empty history or at index 0, and redo at the last
\* snapshot, from the keyboard or from the toolbar, change neither the scene
\* nor the history nor the index; the handlers run to completion there.
BoundaryNavigationIsNoOp ==
  [][/\ (historyIndex <= 0 /\ (keyUndo("z", TRUE, FALSE) \/ toolbarUndo))
          => UNCHANGED SceneAndHistory
     /\ (historyIndex = Len(history) - 1 /\ (keyRedo("z", TRUE, TRUE) \/ toolbarRedo))
          => UNCHANGED SceneAndHistory]_vars

\* C6 witness: two snapshots with the index on the first (undo is at its
\* boundary) while the scene holds a shape made after them.
UndoAtBoundary == Len(history) = 2 /\ historyIndex = 0 /\ Len(elements) = 2

\* C7: after every pointer-up the gesture context has its idle values: no
\* dragged shape, not resizing, no resize direction, no captured offset,
\* initial size or initial position, not drawing, no collected points.
PointerUpClearsGesture ==
  [][handleMouseUp =>
       /\ draggedElement' = 0
       /\ ~isResizing' /\ resizeDirection' = ""
       /\ offset' = Pt(0, 0)
       /\ initialSize' = [width |-> 0, height |-> 0]
       /\ initialPosition' = Pt(0, 0)
       /\ ~isDrawing' /\ pathPoints' = <<>>]_vars

\* C8: pointer-up while drawing ends the drawing (flag false, no points, no
\* preview); with two or more points a path listing them in order is
\* appended to the scene, with fewer the scene and the history stay as they
\* are.
PointerUpEndsDrawing ==
  [][(isDrawing /\ handleMouseUp) =>
       /\ ~isDrawing' /\ pathPoints' = <<>> /\ drawingPath' = <<>>
       /\ IF Len(pathPoints) >= 2
          THEN /\ Len(elements') = Len(elements) + 1
               /\ SubSeq(elements', 1, Len(elements)) = elements
               /\ LET new == heap'[elements'[Len(elements')]]
                      segs == WrittenPairs(new.d)
                  IN  /\ new.type = "path"
                      /\ Len(segs) = Len(pathPoints)
                      /\ \A i \in 1..Len(pathPoints) :
                           /\ segs[i].command = (IF i = 1 THEN "M" ELSE "L")
                           /\ segs[i].x = pathPoints[i].x /\ segs[i].y = pathPoints[i].y
          ELSE UNCHANGED SceneAndHistory]_vars

\* C8 witness: a path of two points is in the scene and no drawing is active.
PathDrawn ==
  /\ ~isDrawing /\ pathPoints = <<>>
  /\ \E i \in 1..Len(elements) :
       heap[elements[i]].type = "path" /\ Len(WrittenPairs(heap[elements[i]].d)) = 2

\* C9: while a path is being drawn the Escape key ends the drawing, and
\* while text is being entered it closes the input; neither adds a shape or
\* records a snapshot.
EscapeDiscardsGesture ==
  /\ isDrawing =>
       ENABLED (/\ handleKeyDown("Escape", FALSE, FALSE)
                /\ ~isDrawing' /\ pathPoints' = <<>>
                /\ elements' = elements /\ history' = history
                /\ historyIndex' = historyIndex)
  /\ showTextInput =>
       ENABLED (/\ textInputKeyDown("Escape")
                /\ ~showTextInput' /\ textInput' = ""
                /\ elements' = elements /\ history' = history
                /\ historyIndex' = historyIndex)

\* No element of the scene has the identifier id.
NotInScene(id) == \A i \in 1..Len(elements) : heap[elements[i]].id # id

\* The shape targeted by the selected animation of the catalog is not in the scene.
StaleAnimationTarget ==
  \E i \in 1..Len(animations) :
    animations[i].id = selectedAnimationId /\ NotInScene(animations[i].elementId)

StaleSelection == selectedElement # 0 /\ NotInScene(heap[selectedElement].id)
StaleDrag == draggedElement # 0 /\ NotInScene(heap[draggedElement].id)

\* C10: a drag move, a resize move, a fill edit, a filter application and an
\* animation application whose target identifier is not in the scene leave
\* the scene and the history as they are.
StaleTargetIsNoOp ==
  [][/\ ((~(isResizing /\ selectedElement # 0) /\ StaleDrag)
           /\ \E p \in Points : handleMouseMove(p))
          => UNCHANGED SceneAndHistory
     /\ ((isResizing /\ StaleSelection) /\ \E p \in Points : handleMouseMove(p))
          => UNCHANGED SceneAndHistory
     /\ (StaleSelection /\ \E value \in Fills : editFill(value))
          => UNCHANGED SceneAndHistory
     /\ (StaleSelection /\ applyFilter) => UNCHANGED SceneAndHistory
     /\ (StaleAnimationTarget /\ applyAnimation) => UNCHANGED SceneAndHistory]_vars

\* C10 witness: the shape that is selected, held by a resize and targeted
\* by the selected animation is not in the scene, a filter is selected, and
\* the scene holds another shape.
StaleTargetsHeld ==
  /\ StaleSelection /\ isResizing /\ StaleAnimationTarget
  /\ selectedFilterId # Null /\ Len(elements) > 0

\* A geometric field: absent, or a finite number.
Finite(v) == v = Undef \/ IsNum(v)
\* A size: absent, or a finite number that is not negative.
FiniteSize(v) == v = Undef \/ (IsNum(v) /\ v >= 0)

\* Every piece of a path string is an M or L piece with two finite numbers.
PairsFinite(pairs) ==
  \A k \in 1..Len(pairs) :
    pairs[k].command \in {"M", "L"} /\ IsNum(pairs[k].x) /\ IsNum(pairs[k].y)

\* C11: every shape of the scene has finite numbers in x, y, cx, cy and in
\* every coordinate of its path data, and finite numbers >= 0 in width,
\* height, r, rx and ry.
GeometryFinite ==
  \A i \in 1..Len(elements) :
    LET o == heap[elements[i]]
    IN  /\ Finite(o.x) /\ Finite(o.y) /\ Finite(o.cx) /\ Finite(o.cy)
        /\ FiniteSize(o.width) /\ FiniteSize(o.height)
        /\ FiniteSize(o.r) /\ FiniteSize(o.rx) /\ FiniteSize(o.ry)
        /\ o.type = "path" => PairsFinite(WrittenPairs(o.d))

\* C12: the shapes of the scene have identifiers that are set and pairwise
\* distinct.
IdsDistinct ==
  /\ \A i \in 1..Len(elements) : heap[elements[i]].id \notin {Undef, Null}
  /\ \A i, j \in 1..Len(elements) :
       i # j => heap[elements[i]].id # heap[elements[j]].id

\* The object of the scene that a resize move changes.
ResizedRef == elements[findIndex(elements, heap, heap[selectedElement].id)]
\* A resize move is about to change a rectangle or a text of the scene.
ResizingBox ==
  /\ isResizing /\ selectedElement # 0
  /\ findIndex(elements, heap, heap[selectedElement].id) # 0
  /\ heap[ResizedRef].type \in {"rect", "text"}

\* C13: a resize move on a rectangle or a text leaves every dimension that
\* its direction changes a number >= 20, and exactly 20 when the pointer is
\* less than 20 away from the opposite edge, or beyond it.
ResizeClamps ==
  [][\A p \in GeoPoints :
       (ResizingBox /\ mouseMoveResize(p)) =>
         LET el == heap[ResizedRef]
             new == heap'[ResizedRef]
             horizontal == Includes(resizeDirection, "e") \/ Includes(resizeDirection, "w")
             vertical == Includes(resizeDirection, "s") \/ Includes(resizeDirection, "n")
         IN  /\ horizontal => IsNum(new.width) /\ new.width >= 20
             /\ vertical => IsNum(new.height) /\ new.height >= 20
             /\ (Includes(resizeDirection, "e") /\ IsNum(el.x) /\ p.x - el.x < 20)
                  => new.width = 20
             /\ (Includes(resizeDirection, "s") /\ IsNum(el.y) /\ p.y - el.y < 20)
                  => new.height = 20]_vars

\* C14: a move of a resize started on the "se" handle of a rectangle, with
\* the pointer at (dx, dy) from the rectangle's top-left corner, gives the
\* width snap(max(20, dx)) and the height snap(max(20, dy)) and leaves x and
\* y as they are.
SeResizeFollowsPointer ==
  [][\A p \in GeoPoints :
       (/\ ResizingBox /\ draggedElement = 0 /\ resizeDirection = "se"
        /\ heap[ResizedRef].type = "rect"
        /\ mouseMoveResize(p)) =>
         LET el == heap[ResizedRef]
             new == heap'[ResizedRef]
         IN  /\ new.width = snapToGridValue(snapToGrid, MathMax(20, Sub(p.x, el.x)))
             /\ new.height = snapToGridValue(snapToGrid, MathMax(20, Sub(p.y, el.y)))
             /\ new.x = el.x /\ new.y = el.y]_vars

\* C15: a resize move in a west direction leaves x + width of the rectangle
\* or text as it was before the move, and one in a north direction leaves
\* y + height as it was.
FarEdgeStaysFixed ==
  [][\A p \in GeoPoints :
       (ResizingBox /\ mouseMoveResize(p)) =>
         LET el == heap[ResizedRef]
             new == heap'[ResizedRef]
         IN  /\ Includes(resizeDirection, "w") =>
                  /\ IsNum(Add(new.x, new.width))
                  /\ Add(new.x, new.width) = Add(el.x, el.width)
             /\ Includes(resizeDirection, "n") =>
                  /\ IsNum(Add(new.y, new.height))
                  /\ Add(new.y, new.height) = Add(el.y, el.height)]_vars

\* The anchor of a shape: (x, y) of a rectangle or text, (cx, cy) of a
\* circle or ellipse.
Anchor(o) == IF o.type \in {"rect", "text"} THEN Pt(o.x, o.y) ELSE Pt(o.cx, o.cy)

\* C16: a pointer-down on a rectangle, text or circle captures the distance
\* from its anchor to the pointer, and a drag move puts the anchor at
\* snap(pointer - offset).
DragFollowsPointer ==
  [][\A p \in DragPoints :
       /\ \A i \in 1..Len(elements) :
            (/\ heap[elements[i]].type \in {"rect", "text", "circle"}
             /\ mouseDownShape(p, "canvas") /\ draggedElement' = elements[i]) =>
              /\ IsNum(offset'.x) /\ IsNum(offset'.y)
              /\ offset'.x = p.x - Anchor(heap[elements[i]]).x
              /\ offset'.y = p.y - Anchor(heap[elements[i]]).y
       /\ (/\ draggedElement # 0
           /\ heap[draggedElement].type \in {"rect", "text", "circle"}
           /\ mouseMoveDrag(p)) =>
            LET new == heap'[elements'[findIndex(elements, heap, heap[draggedElement].id)]]
            IN  /\ IsNum(Anchor(new).x) /\ IsNum(Anchor(new).y)
                /\ Anchor(new).x = snapToGridValue(snapToGrid, Sub(p.x, offset.x))
                /\ Anchor(new).y = snapToGridValue(snapToGrid, Sub(p.y, offset.y))]_vars

\* C17: while an ellipse of the scene is dragged, a pointer-move to p can
\* run and leaves the ellipse's centre at snap(p - offset).
EllipseDragMovesCentre ==
  \A p \in EffectPoints :
    (/\ draggedElement # 0 /\ ~(isResizing /\ selectedElement # 0)
     /\ heap[draggedElement].type = "ellipse"
     /\ findIndex(elements, heap, heap[draggedElement].id) # 0) =>
      ENABLED (/\ mouseMoveDrag(p)
               /\ heap'[elements'[findIndex(elements, heap, heap[draggedElement].id)]].cx
                    = snapToGridValue(snapToGrid, Sub(p.x, offset.x))
               /\ heap'[elements'[findIndex(elements, heap, heap[draggedElement].id)]].cy
                    = snapToGridValue(snapToGrid, Sub(p.y, offset.y)))

\* The commands and coordinates of parsed segments are those of cmds, in
\* the same order.
SameCommands(segs, cmds) ==
  /\ Len(segs) = Len(cmds)
  /\ \A i \in 1..Len(cmds) :
       /\ segs[i].command = cmds[i].command
       /\ segs[i].x = cmds[i].x /\ segs[i].y = cmds[i].y

\* C18: for a path string d of M and L commands with numeric pairs,
\* parsePath(d) holds the commands and coordinates of d in order,
\* stringifyPath(parsePath(d)) writes the same commands and coordinates in
\* the same order, and parsing that string again gives parsePath(d).
CodecRoundTrip ==
  \A c \in CodecCases :
    pathData = WritePath(c) =>
      /\ SameCommands(parsePath(pathData), c.cmds)
      /\ SameCommands(WrittenPairs(stringifyPath(parsePath(pathData))), c.cmds)
      /\ parsePath(stringifyPath(parsePath(pathData))) = parsePath(pathData)

\* The pairs of new are those of old moved by (dx, dy), command by command.
ShiftedPairs(new, old, dx, dy) ==
  /\ Len(new) = Len(old)
  /\ \A i \in 1..Len(old) :
       /\ new[i].command = old[i].command
       /\ old[i].command \in {"M", "L"} =>
            /\ IsNum(new[i].x) /\ IsNum(new[i].y)
            /\ new[i].x = old[i].x + dx /\ new[i].y = old[i].y + dy

\* C19: the path that a paste adds lists the pairs of the copied path moved
\* by (20, 20), and a drag move of a path moves every pair of it by one
\* and the same delta.
PathTranslationShiftsPairs ==
  [][/\ (/\ clipboard # <<>> /\ clipboard[1].type = "path"
         /\ PairsFinite(WrittenPairs(clipboard[1].d))
         /\ keyPaste("v", TRUE, FALSE)) =>
          ShiftedPairs(WrittenPairs(heap'[elements'[Len(elements')]].d),
                       WrittenPairs(clipboard[1].d), 20, 20)
     /\ \A p \in DrawPoints :
          (/\ draggedElement # 0 /\ heap[draggedElement].type = "path"
           /\ PairsFinite(WrittenPairs(heap[draggedElement].d))
           /\ mouseMoveDrag(p)) =>
            LET old == WrittenPairs(heap[draggedElement].d)
                new == WrittenPairs(
                         heap'[elements'[findIndex(elements, heap, heap[draggedElement].id)]].d)
            IN  /\ Len(new) > 0
                /\ ShiftedPairs(new, old, new[1].x - old[1].x, new[1].y - old[1].y)]_vars

\* The smallest and the largest of a non-empty set of numbers.
Least(S) == CHOOSE v \in S : \A w \in S : v <= w
Greatest(S) == CHOOSE v \in S : \A w \in S : v >= w
\* The box of the points that a path string lists.
PairsBox(pairs) ==
  [minX |-> Least({pairs[k].x : k \in 1..Len(pairs)}),
   maxX |-> Greatest({pairs[k].x : k \in 1..Len(pairs)}),
   minY |-> Least({pairs[k].y : k \in 1..Len(pairs)}),
   maxY |-> Greatest({pairs[k].y : k \in 1..Len(pairs)})]
\* The point lies in the box widened by 5 on every side.
WithinTolerance(point, box) ==
  /\ point.x >= box.minX - 5 /\ point.x <= box.maxX + 5
  /\ point.y >= box.minY - 5 /\ point.y <= box.maxY + 5
\* Points on, just inside and just outside the widened box.
ProbesAround(box) ==
  {Pt(x, y) : x \in {box.minX - 6, box.minX - 5, box.minX, box.maxX, box.maxX + 5, box.maxX + 6},
              y \in {box.minY - 6, box.minY - 5, box.minY, box.maxY, box.maxY + 5, box.maxY + 6}}
\* The shape is a path whose string lists points only.
DrawnPath(o) == o.type = "path" /\ Len(o.d) > 0 /\ PairsFinite(WrittenPairs(o.d))

\* C20: isPointInElement holds of a point and a path exactly when the point
\* is within 5 of the box of the path's points, and in select mode a
\* pointer-down at such a point selects the path and starts dragging it.
PathHitTestUsesBox ==
  \A i \in 1..Len(elements) :
    DrawnPath(heap[elements[i]]) =>
      /\ \A probe \in ProbesAround(PairsBox(WrittenPairs(heap[elements[i]].d))) :
           isPointInElement(probe, heap[elements[i]])
             <=> WithinTolerance(probe, PairsBox(WrittenPairs(heap[elements[i]].d)))
      /\ \A p \in DrawPoints :
           (/\ mode = "select"
            /\ WithinTolerance(p, PairsBox(WrittenPairs(heap[elements[i]].d)))) =>
             ENABLED (/\ handleMouseDown(p, "canvas")
                      /\ selectedElement' = elements[i]
                      /\ draggedElement' = elements[i])

\* C21: a composite-effect creation adds the turbulence filter to the filter
\* store, the radial gradient to the gradient store, the primary ellipse and
\* three rings to the scene, and to the catalog a pulse descriptor for the
\* primary ellipse and a rotation descriptor for each ring.
EffectRegistersResources ==
  [][\A p \in EffectPoints : \A same \in IdOutcomes(4) :
       mouseDownQuantum(p, "canvas", same) =>
         LET n == Len(elements)
             primary == heap'[elements'[n + 1]]
             added == {animations'[k] : k \in (Len(animations) + 1)..Len(animations')}
         IN  /\ Len(elements') = n + 4
             /\ \A k \in 1..4 : heap'[elements'[n + k]].type = "ellipse"
             /\ \E k \in 1..Len(svgFilters') : svgFilters'[k] = primary.filter
             /\ \E k \in 1..Len(svgGradients') : svgGradients'[k] = GradientId(primary.id)
             /\ \E a \in added : a.elementId = primary.id /\ a.type = "attribute"
             /\ \A k \in 2..4 :
                  \E a \in added :
                    a.elementId = heap'[elements'[n + k]].id /\ a.type = "rotate"]_vars

\* C29: getBoundingBox of a path drawn through points returns the least x
\* and the least y of the points and, as width and height, the distance to
\* the greatest x and the greatest y.
BoundingBoxOfPoints ==
  \A i \in 1..Len(elements) :
    DrawnPath(heap[elements[i]]) =>
      LET box == PairsBox(WrittenPairs(heap[elements[i]].d))
      IN  getBoundingBox(heap[elements[i]])
            = [x |-> box.minX, y |-> box.minY,
               width |-> box.maxX - box.minX, height |-> box.maxY - box.minY]

\* C30: an M or L piece that the coordinate pattern does not match is parsed
\* into a segment with the piece's letter and the coordinates (0, 0), and
\* every other piece into the segment it gives when parsed on its own.
MalformedSegmentIsPlaceholder ==
  \A k \in 1..Len(SplitCommands(pathData)) :
    LET piece == SplitCommands(pathData)[k]
    IN  /\ Len(parsePath(pathData)) = Len(SplitCommands(pathData))
        /\ IF CharAt0(piece) \in {"M", "L"} /\ Len(MatchCoords(piece)) = 0
           THEN /\ parsePath(pathData)[k].command = CharAt0(piece)
                /\ parsePath(pathData)[k].x = 0
                /\ parsePath(pathData)[k].y = 0
           ELSE parsePath(pathData)[k] = parsePath(piece)[1]

\* C27: with snapping on or off, snapping a snapped value gives the snapped
\* value again.
SnapIdempotent ==
  \A snap \in BOOLEAN :
    snapToGridValue(snap, snapToGridValue(snap, snapArg)) = snapToGridValue(snap, snapArg)

\* C27 witness: with snapping on, a value off the grid has been snapped to
\* a grid line other than 0.
SnappedValueHeld ==
  snapToGrid /\ IsNum(snapArg) /\ snapArg # 0 /\ snapArg % gridSize = 0

\* The multiple of gridSize nearest to v, the greater one of two equally near.
NearestGridLine(v) ==
  CHOOSE s \in (v - gridSize)..(v + gridSize) :
    s % gridSize = 0 /\ 2 * s - gridSize <= 2 * v /\ 2 * v < 2 * s + gridSize

\* C28: every shape a constructor returns is at the nearest grid line of
\* the requested position when snapping is on and at the requested
\* position when it is off; its width, height and radius are the arguments
\* as given.  With a grid of 15 the value 100 is snapped to 105.
ConstructorsSnapPositionOnly ==
  /\ RoundToGrid(100, 15) = 105
  /\ \A c \in {constructed[k] : k \in 1..Len(constructed)} :
       \A i \in 1..Len(c.shapes) :
         LET o == c.shapes[i]
             px == IF c.snap THEN NearestGridLine(c.x) ELSE c.x
             py == IF c.snap THEN NearestGridLine(c.y) ELSE c.y
         IN  /\ o.type \in {"rect", "text"} => o.x = px /\ o.y = py
             /\ o.type \in {"circle", "ellipse"} => o.cx = px /\ o.cy = py
             /\ o.type = "rect" => o.width = c.sizes[1] /\ o.height = c.sizes[2]
             /\ o.type = "circle" => o.r = c.sizes[1]

\* C28 witness: with snapping on a rectangle was requested at an x and with
\* a width off the grid.
OffGridRectangleConstructed ==
  /\ constructed # <<>>
  /\ constructed[1].snap
  /\ constructed[1].shapes[1].type = "rect"
  /\ constructed[1].x % gridSize # 0
  /\ constructed[1].sizes[1] % gridSize # 0

\* C26: a step that moves the time cursor is taken while the preview is on
\* and leaves the scene, the history and its index, the filter and gradient
\* stores, the animation catalog, the selections and the gesture state as
\* they were.
TickChangesTimeOnly ==
  [][timePosition' # timePosition =>
       /\ previewAnimation
       /\ UNCHANGED <<sceneVars, historyVars, storeVars, gestureVars, selectedElement,
                      mode, snapToGrid, textVars, clipboard, previewAnimation>>]_vars

\* C26 witness: the timer has ticked while a shape of the scene is dragged
\* or resized.
TickedDuringGesture ==
  /\ timePosition > 0
  /\ Len(elements) > 0
  /\ draggedElement # 0

\* values.split(';'): the keyframes of a values string.
Keyframes(values) ==
  LET stops == {k \in 1..Len(values) : values[k] = ";"} \cup {Len(values) + 1}
      StopOf(n) == CHOOSE k \in stops : Cardinality({j \in stops : j <= k}) = n
  IN  [n \in 1..Cardinality(stops) |->
         SubSeq(values, IF n = 1 THEN 1 ELSE StopOf(n - 1) + 1, StopOf(n) - 1)]

\* C22: the values of every path-motion descriptor of the catalog, as Path
\* Morph made them or as an intensity edit made them again with the morph,
\* jitter or wave generator, are five variations followed by the
\* descriptor's source path.
KeyframesEndOnSourcePath ==
  \A i \in 1..Len(animations) :
    animations[i].type = "motion" =>
      /\ Len(Keyframes(animations[i].values)) = 6
      /\ Keyframes(animations[i].values)[6] = animations[i].path

\* C22 witness: the keyframes of a descriptor were made again by the wave
\* generator at intensity 20.
WaveKeyframesHeld ==
  \E i \in 1..Len(animations) :
    /\ animations[i].type = "motion"
    /\ animations[i].motionType = "wave"
    /\ animations[i].intensity = 20
    /\ animations[i].values = generateWavePaths(animations[i].path, 20, 5)

\* The values the generator of a motion type can make from a path.
Regenerated(path, motionType, intensity) ==
  CASE motionType = "jitter" ->
         {generateJitterPaths(path, intensity, 5, r) : r \in RandomTables}
    [] motionType = "wave" -> {generateWavePaths(path, intensity, 5)}
    [] OTHER -> {generatePathVariations(path, 5, 2 * intensity, r) : r \in RandomTables}

\* C23: over every step a path-motion descriptor keeps its source path,
\* values that changed were generated from that source path, and the source
\* path is the path data of the shape the descriptor was created for.
RegenerationStartsFromSource ==
  [][\A i \in 1..Len(animations') :
       LET a == animations'[i]
       IN  a.type = "motion" =>
             /\ \A r \in 1..Len(heap') : heap'[r].id = a.elementId => heap'[r].d = a.path
             /\ \A j \in 1..Len(animations) :
                  animations[j].id = a.id =>
                    /\ a.path = animations[j].path
                    /\ a.values # animations[j].values =>
                         a.values \in Regenerated(a.path, MotionTypeOf(animations[j]),
                                                  a.intensity)]_vars

\* C23 witness: a descriptor whose keyframes were made again by the jitter
\* generator still holds the path data of its shape.
JitterKeyframesHeld ==
  \E i \in 1..Len(animations) :
    /\ animations[i].type = "motion"
    /\ animations[i].intensity = 20
    /\ animations[i].values \in Regenerated(animations[i].path, "jitter", 20)
    /\ animations[i].values \notin Regenerated(animations[i].path, "morph", 20)
    /\ \E r \in 1..Len(heap) :
         heap[r].id = animations[i].elementId /\ heap[r].d = animations[i].path

SceneIds(els, hp) == {hp[els[k]].id : k \in 1..Len(els)}

\* C25: a step that takes a filter out of the filter store leaves every
\* shape as it was, a step that takes a shape out of the scene leaves the
\* catalog as it was, and a step that takes a descriptor out of the catalog
\* leaves the scene as it was.
DeletionDoesNotCascade ==
  [][/\ Len(svgFilters') < Len(svgFilters) => UNCHANGED sceneVars
     /\ SceneIds(elements, heap) \ SceneIds(elements', heap') # {} =>
          animations' = animations
     /\ Len(animations') < Len(animations) => UNCHANGED sceneVars]_vars

\* C25 witness: a shape of the scene refers to a filter that the store no
\* longer holds and a catalog entry targets a shape that the scene no
\* longer holds.
DanglingReferencesHeld ==
  /\ \E k \in 1..Len(elements) :
       /\ heap[elements[k]].filter # Undef
       /\ \A f \in 1..Len(svgFilters) : svgFilters[f] # heap[elements[k]].filter
  /\ \E i \in 1..Len(animations) :
       animations[i].elementId \notin SceneIds(elements, heap)

\* C31: after every undo or redo that is not at a boundary, from the keyboard
\* or from the toolbar, the content of the scene equals the content of the
\* history snapshot at the new index.
NavigationShowsSnapshot ==
  [][(\/ (historyIndex > 0 /\ (keyUndo("z", TRUE, FALSE) \/ toolbarUndo))
      \/ (historyIndex < Len(history) - 1
            /\ (keyRedo("z", TRUE, TRUE) \/ toolbarRedo)))
     => ContentOf(elements', heap', arrs')
          = ContentOf(history'[historyIndex' + 1], heap', arrs')]_vars

\* C32: a Delete step that takes a shape out of the scene is recorded in the
\* history: the snapshot at the new index is the scene without the shape and
\* the snapshot before it, the one a single undo shows, still holds the
\* deleted shape; this includes the deletion of the only shape of the scene.
DeleteIsRecorded ==
  [][((\E ctrl, shift \in BOOLEAN : keyDelete("Delete", ctrl, shift))
        /\ Len(elements') < Len(elements))
     => /\ historyIndex' > 0
        /\ ContentOf(history'[historyIndex' + 1], heap', arrs')
             = ContentOf(elements', heap', arrs')
        /\ SceneIds(elements, heap) \ SceneIds(elements', heap')
             \subseteq SceneIds(history'[historyIndex'], heap')]_vars

\* C33: a resize move of a gesture started on a handle that leaves the
\* rectangle or text with a width or height, both numbers, other than the
\* one captured at the pointer-down is recorded: the snapshot at the new index is the scene
\* and a snapshot before it, which undo reaches, holds the shape with the
\* captured width and height.
ResizeIsRecorded ==
  [][(/\ ResizingBox /\ draggedElement = 0
      /\ \E p \in GeoPoints : mouseMoveResize(p)
      /\ IsNum(heap'[ResizedRef].width) /\ IsNum(heap'[ResizedRef].height)
      /\ <<heap'[ResizedRef].width, heap'[ResizedRef].height>>
           # <<initialSize.width, initialSize.height>>)
     => /\ history'[historyIndex' + 1] = elements'
        /\ \E i \in 1..historyIndex' : \E k \in 1..Len(history'[i]) :
             /\ heap'[history'[i][k]].id = heap[ResizedRef].id
             /\ heap'[history'[i][k]].width = initialSize.width
             /\ heap'[history'[i][k]].height = initialSize.height]_vars

\* C34: a drag gesture adds at most one snapshot to the history: whenever a
\* drag move records a snapshot, the snapshot before it, which a single undo
\* shows, holds the dragged shape at the position it had at the pointer-down.
DragAddsOneSnapshot ==
  [][(/\ draggedElement # 0 /\ ~isResizing
      /\ \E p \in DragPoints : mouseMoveDrag(p)
      /\ history' # history)
     => /\ historyIndex' > 0
        /\ \E k \in 1..Len(history'[historyIndex']) :
             LET o == heap'[history'[historyIndex'][k]]
             IN  /\ o.id = heap[draggedElement].id
                 /\ Anchor(o) = Anchor(heap[draggedElement])]_vars

\* Pointer positions of the runs that create a rectangle after a resize of
\* another one. A press happens and the tool changes only while no gesture
\* is under way: presses and releases of the pointer alternate.
CreationPoints == {Pt(0, 0), Pt(40, 30), Pt(100, 80)}

NextCreation ==
  \/ \E p \in CreationPoints :
       /\ ~isResizing /\ Len(elements) < MaxCreated
       /\ mouseDownCreate(p, "canvas")
  \/ \E p \in CreationPoints : ~isResizing /\ mouseDownHandle(p, "se")
  \/ \E p \in CreationPoints : mouseMoveResize(p)
  \/ handleMouseUp
  \/ \E m \in {"select", "rect"} : ~isResizing /\ setMode(m)

SpecCreation == Init /\ [][NextCreation]_vars

\* C35: a move of the gesture that creates a rectangle (press in rect mode,
\* moves, release) gives the new rectangle the width snap(max(20, dx)) and
\* the height snap(max(20, dy)), dx and dy being the distance of the pointer
\* from the press point, whatever gestures came before.
CreatedSizeFollowsPointer ==
  [][\A p \in CreationPoints :
       (/\ ResizingBox /\ draggedElement = selectedElement
        /\ heap[selectedElement].type = "rect"
        /\ mouseMoveResize(p))
       => /\ heap'[ResizedRef].width
               = snapToGridValue(snapToGrid, MathMax(20, Sub(p.x, initialPosition.x)))
          /\ heap'[ResizedRef].height
               = snapToGridValue(snapToGrid, MathMax(20, Sub(p.y, initialPosition.y)))]_vars

\* C36: a pointer-down in select mode at a point that lies inside several
\* shapes selects and drags the topmost of them, the one latest in the scene
\* sequence.
TopmostShapeIsSelected ==
  [][\A p \in DragPoints :
       LET hits == {i \in 1..Len(elements) : isPointInElement(p, heap[elements[i]])}
       IN  (Cardinality(hits) > 1 /\ mouseDownShape(p, "canvas"))
           => /\ selectedElement' = elements[CHOOSE i \in hits : \A j \in hits : j <= i]
              /\ draggedElement' = selectedElement']_vars

\* C37: whenever a shape is selected, the scene holds a shape with the same
\* identifier: delete, undo and redo leave no selection of a shape that they
\* took out of the scene.
SelectionIsInScene ==
  selectedElement # 0 =>
    \E i \in 1..Len(elements) : heap[elements[i]].id = heap[selectedElement].id

\* The runs that copy and paste a shape and apply animations to the original
\* and to the pasted shape.
NextClipboard ==
  \/ \E p \in PanelPoints : elements = <<>> /\ mouseDownCreate(p, "canvas")
  \/ handleMouseUp
  \/ setMode("rect")
  \/ addRotation
  \/ deleteAnimation
  \/ applyAnimation
  \/ keyCopy("c", TRUE, FALSE)
  \/ keyPaste("v", TRUE, FALSE)

SpecClipboard == Init /\ [][NextClipboard]_vars

\* C38: a pasted shape and the shape it was copied from are independent: an
\* Apply Animation step changes the applied-animation list of one shape of
\* the scene only, so applying to the original leaves the list of the pasted
\* shape as it was, and the other way round.
PastedShapeIsIndependent ==
  [][applyAnimation =>
       LET Applied(hp, ar, r) == IF hp[r].animations = 0 THEN <<>> ELSE ar[hp[r].animations]
           changed == {k \in 1..Len(elements) :
                         Applied(heap', arrs', elements'[k])
                           # Applied(heap, arrs, elements[k])}
       IN  Cardinality(changed) <= 1]_vars

\* C39: every path-motion descriptor of the catalog, as Path Morph made it
\* and after every regeneration of its values, has as many keyTimes entries
\* as keyframe values, and its keyTimes rise from 0 to 1.
KeyTimesMatchKeyframes ==
  \A i \in 1..Len(animations) :
    animations[i].type = "motion" =>
      LET times == Keyframes(animations[i].keyTimes)
          \* The number an entry of keyTimes denotes, in hundredths.
          Hundredths(s) ==
            100 * DigitVal(s[1])
              + (IF Len(s) >= 3 THEN 10 * DigitVal(s[3]) ELSE 0)
              + (IF Len(s) >= 4 THEN DigitVal(s[4]) ELSE 0)
      IN  /\ Len(times) = Len(Keyframes(animations[i].values))
          /\ Hundredths(times[1]) = 0
          /\ Hundredths(times[Len(times)]) = 100
          /\ \A n \in 1..(Len(times) - 1) : Hundredths(times[n]) < Hundredths(times[n + 1])

====
